---------------------------- MODULE Spec2Model ----------------------------
(***************************************************************************)
(* A model of IntelliScript's backend core:                                *)
(*   - QAService.merge_transcription_diarization (qa_service.py), the      *)
(*     word/turn alignment and the speaker chunker;                        *)
(*   - the audio cleaning pipelines of AudioProcessor and                  *)
(*     EnhancedAudioProcessor, run by the sessions of main.py.             *)
(* Times are integers in tenths of a second.  A word's midpoint            *)
(* start + (end - start)/2 is kept doubled so that it stays an integer.    *)
(***************************************************************************)
EXTENDS Integers, Sequences, FiniteSets, TLC

VARIABLES
    whisper_result,        \* merge: the transcription dict (argument)
    diarization_result,    \* merge: the list of speaker turns (argument)
    words_with_speakers,   \* merge: local list, each word with its speaker
    current_chunk,         \* merge: the accumulator of the grouping loop
    speaker_chunks,        \* merge: the chunk list (the returned value)
    i,                     \* merge: index (1-based) of the next word to group
    mpc,                   \* merge: position in the function
    fs,                    \* the files on disk: path -> content
    sess,                  \* per session: position and locals of its request
    written,               \* per session: the paths it has written so far
    redis,                 \* ProgressTracker: progress:{session_id} keys
    progress_files,        \* ProgressTracker: progress/{session_id}.json
    cache_client,          \* CacheManager.client is not None
    calls,                 \* per session: the tools it has invoked, in order
    reported,              \* per session: the last progress_data it built
    audio_data,            \* noise reduction: the samples librosa.load returned
    sample_rate,           \* noise reduction: the rate librosa.load returned
    y_noise,               \* noise reduction: the profile given to reduce_noise
    npc,                   \* noise reduction: position in the function
    response,              \* the last answer of a polling or export endpoint
    split_text,            \* split_text_into_chunks: the argument text
    chunk_size,            \* split_text_into_chunks: the argument chunk_size
    overlap,               \* split_text_into_chunks: the argument overlap
    split_words,           \* split_text_into_chunks: words
    chunks,                \* split_text_into_chunks: chunks
    split_start,           \* split_text_into_chunks: start
    spc                    \* split_text_into_chunks: position in the function

mergeVars == << whisper_result, diarization_result, words_with_speakers,
                current_chunk, speaker_chunks, i, mpc >>

pipeVars == << fs, sess, written, redis, progress_files, cache_client, calls,
              reported >>

noiseVars == << audio_data, sample_rate, y_noise, npc >>

apiVars == << response >>

\* the state outside the merge and the sessions' runs
splitVars == << split_text, chunk_size, overlap, split_words, chunks,
               split_start, spc >>

utilVars == << noiseVars, apiVars, splitVars >>

vars == << mergeVars, pipeVars, utilVars >>

----------------------------------------------------------------------------
(* Bounds of the merge inputs *)

MaxWords == 2
MaxTurns == 2
MaxTime == 4

\* min_gap_seconds = 0.3, in tenths of a second
MIN_GAP == 3

Times == 0 .. MaxTime
WordDurations == {0, 1}
\* a word that carries a trailing blank and one that carries a leading blank
WordTexts == { <<"a", " ">>, <<" ", "b">> }
Speakers == {"A", "B"}
\* turn intervals that touch at time 1 and overlap on [2, 3]
TurnIntervals == { <<0, 1>>, <<1, 3>>, <<2, 3>> }

NoChunk == [speaker |-> "", text |-> << >>, start |-> 0, end |-> 0]

Words == { [word |-> t, start |-> s, end |-> s + d] :
             t \in WordTexts, s \in Times, d \in WordDurations }

Turns == { [start |-> iv[1], end |-> iv[2], speaker |-> sp] :
             iv \in TurnIntervals, sp \in Speakers }

SeqsUpTo(S, n) == UNION { [1 .. k -> S] : k \in 0 .. n }

\* the transcription collaborator yields the words ordered by start
WordLists == { ws \in SeqsUpTo(Words, MaxWords) :
                 \A k \in 1 .. Len(ws) - 1 : ws[k].start <= ws[k + 1].start }

\* None and {} (both falsy), a result without the 'words' key, a word list
WhisperResults == { << >> } \cup { [text |-> << >>] }
                    \cup { [words |-> ws] : ws \in WordLists }

TurnLists == SeqsUpTo(Turns, MaxTurns)

----------------------------------------------------------------------------
(* merge_transcription_diarization *)

EarlyReturnNoTurnCheck(w, d) ==
    \/ DOMAIN w = {}
    \/ "words" \notin DOMAIN w

\* `not whisper_result or 'words' not in whisper_result`, `not diarization_result`
EarlyReturn(w, d) ==
    \/ DOMAIN w = {}
    \/ "words" \notin DOMAIN w
    \/ d = << >>

\* twice word.get('start',0) + (word.get('end',0) - word.get('start',0)) / 2
Mid2(word) == 2 * word.start + (word.end - word.start)

MatchExclusiveEnd(turns, time2) ==
    SelectSeq(turns, LAMBDA t : 2 * t.start <= time2 /\ 2 * t.end > time2)

\* speaker_df[(speaker_df['start'] <= time) & (speaker_df['end'] >= time)]
Match(turns, time2) ==
    SelectSeq(turns, LAMBDA t : 2 * t.start <= time2 /\ 2 * t.end >= time2)

find_speakerDefaultFirst(turns, time2) ==
    IF Match(turns, time2) # << >>
    THEN Match(turns, time2)[1].speaker
    ELSE turns[1].speaker

\* match['speaker'].iloc[0] if not match.empty else "UNKNOWN"
find_speaker(turns, time2) ==
    IF Match(turns, time2) # << >>
    THEN Match(turns, time2)[1].speaker
    ELSE "UNKNOWN"

\* {**word, 'speaker': speaker}
WithSpeaker(word, turns) ==
    [word |-> word.word, start |-> word.start, end |-> word.end,
     speaker |-> find_speaker(turns, Mid2(word))]

NewChunk(word_info) ==
    [speaker |-> word_info.speaker, text |-> word_info.word,
     start |-> word_info.start, end |-> word_info.end]

ExtendChunkWithSeparator(chunk, word_info) ==
    [chunk EXCEPT !.text = @ \o <<" ">> \o word_info.word, !.end = word_info.end]

ExtendChunkWrongKey(chunk, word_info) ==
    [chunk EXCEPT !.text = @ \o word_info.word, !.start = word_info.start]

ExtendChunk(chunk, word_info) ==
    [chunk EXCEPT !.text = @ \o word_info.word, !.end = word_info.end]

SpeakerChangedUnlessOverlap(word_info, chunk) ==
    word_info.speaker # chunk.speaker /\ word_info.start >= chunk.end

\* word_info['speaker'] != current_chunk['speaker']
SpeakerChanged(word_info, chunk) == word_info.speaker # chunk.speaker

IsLongPauseInclusive(word_info, prev_word_info) ==
    (word_info.start - prev_word_info.end) >= MIN_GAP

\* (word_info.get('start', 0) - prev_word_info.get('end', 0)) > min_gap_seconds
IsLongPause(word_info, prev_word_info) ==
    (word_info.start - prev_word_info.end) > MIN_GAP

IsSpace(c) == c = " "

RECURSIVE LStrip(_)
LStrip(s) == IF s # << >> /\ IsSpace(Head(s)) THEN LStrip(Tail(s)) ELSE s

RECURSIVE RStrip(_)
RStrip(s) == IF s # << >> /\ IsSpace(s[Len(s)])
             THEN RStrip(SubSeq(s, 1, Len(s) - 1)) ELSE s

\* str.strip()
Strip(s) == RStrip(LStrip(s))

\* lines 90-93: the early returns
MergeEmpty ==
    /\ mpc = "start"
    /\ EarlyReturn(whisper_result, diarization_result)
    /\ speaker_chunks' = << >>
    /\ mpc' = "returned"
    /\ UNCHANGED << whisper_result, diarization_result, words_with_speakers,
                    current_chunk, i, pipeVars, utilVars >>

\* lines 95-126: the speaker of every word, then the first chunk
AssignSpeakers ==
    /\ mpc = "start"
    /\ ~ EarlyReturn(whisper_result, diarization_result)
    /\ LET words == whisper_result.words
           wws == [k \in 1 .. Len(words) |->
                     WithSpeaker(words[k], diarization_result)]
       IN  /\ words_with_speakers' = wws
           /\ IF wws = << >>
              THEN /\ speaker_chunks' = << >>
                   /\ mpc' = "returned"
                   /\ UNCHANGED << current_chunk, i >>
              ELSE /\ current_chunk' = NewChunk(wws[1])
                   /\ speaker_chunks' = << >>
                   /\ i' = 2
                   /\ mpc' = "group"
    /\ UNCHANGED << whisper_result, diarization_result, pipeVars, utilVars >>

\* lines 128-145: one iteration of the grouping loop
GroupWord ==
    /\ mpc = "group"
    /\ i <= Len(words_with_speakers)
    /\ LET word_info == words_with_speakers[i]
           prev_word_info == words_with_speakers[i - 1]
           speaker_changed == SpeakerChanged(word_info, current_chunk)
           is_long_pause == IsLongPause(word_info, prev_word_info)
       IN  IF speaker_changed \/ is_long_pause
           THEN /\ speaker_chunks' = Append(speaker_chunks, current_chunk)
                /\ current_chunk' = NewChunk(word_info)
           ELSE /\ current_chunk' = ExtendChunk(current_chunk, word_info)
                /\ UNCHANGED speaker_chunks
    /\ i' = i + 1
    /\ UNCHANGED << whisper_result, diarization_result, words_with_speakers,
                    mpc, pipeVars, utilVars >>

MergeReturnDropsLast ==
    /\ mpc = "group"
    /\ i > Len(words_with_speakers)
    /\ speaker_chunks' =
         [k \in 1 .. Len(speaker_chunks) |->
            [speaker_chunks[k] EXCEPT !.text = Strip(@)]]
    /\ mpc' = "returned"
    /\ UNCHANGED << whisper_result, diarization_result, words_with_speakers,
                    current_chunk, i, pipeVars, utilVars >>

\* lines 147-153: close the last chunk, strip every text, return
MergeReturn ==
    /\ mpc = "group"
    /\ i > Len(words_with_speakers)
    /\ LET all == Append(speaker_chunks, current_chunk)
       IN  speaker_chunks' =
             [k \in 1 .. Len(all) |-> [all[k] EXCEPT !.text = Strip(@)]]
    /\ mpc' = "returned"
    /\ UNCHANGED << whisper_result, diarization_result, words_with_speakers,
                    current_chunk, i, pipeVars, utilVars >>

----------------------------------------------------------------------------
(* Files and paths *)

Sessions == {"s1", "s2"}

\* the file name of an upload, the title of a downloaded video
Names == {"talk", "demo"}

\* a path: its directory, the pieces of its name before the extension, and
\* the extension
NoPath == [dir |-> << >>, stem |-> << >>, ext |-> ""]

\* os.path.splitext(path)[0] + suffix + ext
WithSuffix(path, suffix, ext) ==
    [dir |-> path.dir, stem |-> Append(path.stem, suffix), ext |-> ext]

\* main.py: uploads/{session_id}/{file.filename}
UploadPath(s, name) == [dir |-> <<"uploads", s>>, stem |-> <<name>>, ext |-> ".mp4"]

\* video_processor.py: downloads/%(title)s.%(ext)s, merged to mp4
DownloadPath(title) == [dir |-> <<"downloads">>, stem |-> <<title>>, ext |-> ".mp4"]

\* main.py: results/{session_id}/results.json
ResultsPath(s) == [dir |-> <<"results", s>>, stem |-> <<"results">>, ext |-> ".json"]

\* AudioProcessor.extract_audio: splitext(video_path)[0] + '_extracted_audio.wav'
ExtractedAudioPath(video) == WithSuffix(video, "_extracted_audio", ".wav")

\* AudioProcessor.master_clean_audio: out_wav, tmp_f32, pre, norm
OutWavPath(video) == WithSuffix(video, "_master_clean", ".wav")
TmpF32Path(video) == WithSuffix(OutWavPath(video), "_f32", ".wav")
PrePath(video) == WithSuffix(OutWavPath(video), "_pre", ".wav")
NormPath(video) == WithSuffix(OutWavPath(video), "_norm", ".wav")

\* EnhancedAudioProcessor: temp_audio/{basename(video_path)}_basic.wav
BasicPath(video) ==
    [dir |-> <<"temp_audio">>, stem |-> video.stem \o <<video.ext, "_basic">>,
     ext |-> ".wav"]

\* EnhancedAudioProcessor: temp_audio/{base_name}{suffix}.wav, base_name the
\* basename of the video without its extension
TempAudioPath(video, suffix) ==
    [dir |-> <<"temp_audio">>, stem |-> Append(video.stem, suffix), ext |-> ".wav"]

RawPath(video) == TempAudioPath(video, "_raw")
DenoisedPath(video) == TempAudioPath(video, "_denoised")
CleanedPath(video) == TempAudioPath(video, "_cleaned")
FinalOutputPath(video) == TempAudioPath(video, "_enhanced")

\* DiarizationService.diarize: temp_audio_for_diarization/diarization_input.wav
DiarizationInputPath ==
    [dir |-> <<"temp_audio_for_diarization">>, stem |-> <<"diarization_input">>,
     ext |-> ".wav"]

\* the content of a media file: the session whose recording it holds, its
\* sample format, channel count and rate, and the filters applied so far
MediaOf(s) ==
    [owner |-> s, codec |-> "source", ac |-> "source", ar |-> "source",
     ops |-> << >>]

\* the rate at the end of a filter chain fed at rate `ar`: that of its last
\* aresample filter, if it has one
RECURSIVE RateAfter(_, _)
RateAfter(filters, ar) ==
    IF filters = << >> THEN ar
    ELSE RateAfter(Tail(filters),
                   IF Head(filters).name = "aresample"
                   THEN Head(filters).args.rate ELSE ar)

\* ffmpeg: the output made from `content` by the filters `filters`, written
\* with codec `codec`, `ac` channels and rate `ar` ("same": no such option,
\* the output keeps what comes out of the filters)
Transcode(content, filters, codec, ac, ar) ==
    [owner |-> content.owner,
     codec |-> codec,
     ac |-> IF ac = "same" THEN content.ac ELSE ac,
     ar |-> IF ar = "same" THEN RateAfter(filters, content.ar) ELSE ar,
     ops |-> content.ops \o filters]

Write(fsys, path, content) ==
    [q \in DOMAIN fsys \cup {path} |-> IF q = path THEN content ELSE fsys[q]]

\* os.remove of every path of `paths` that exists
Remove(fsys, paths) == [q \in DOMAIN fsys \ paths |-> fsys[q]]

Exists(path) == path \in DOMAIN fs

Log(s, path) == [written EXCEPT ![s] = @ \cup {path}]

\* session s runs a tool (ffmpeg with the filters af, or a model) at its
\* current position
Invoke(s, af) == [calls EXCEPT ![s] = Append(@, [at |-> sess[s].pc, af |-> af])]

----------------------------------------------------------------------------
(* The loudness measurement: the diagnostic stream and its parsing *)

MaxStreamLen == 4

\* The stream is a sequence of tokens: the two braces, "FIVE" for the text of
\* the five fields input_i, input_lra, input_tp, input_thresh, target_offset,
\* "FOUR" for the same text without target_offset, "BAD" for the five fields
\* with a value of input_i that is no number, and "x" for any text that is
\* no JSON.
Tokens == {"{", "}", "FIVE", "FOUR", "BAD", "x"}

\* the object a body token stands for; ffmpeg prints every value as a JSON
\* string, so json.loads yields the text of the value unchanged
FiveFields ==
    [input_i |-> "-23.54", input_lra |-> "5.10", input_tp |-> "-3.20",
     input_thresh |-> "-33.80", target_offset |-> "0.30"]

FourFields ==
    [input_i |-> "-23.54", input_lra |-> "5.10", input_tp |-> "-3.20",
     input_thresh |-> "-33.80"]

BadFields == [FiveFields EXCEPT !.input_i = "N/A"]

\* the value texts that ffmpeg can read as a number
IsFloatText(v) == v # "N/A"

Streams == UNION { [1 .. k -> Tokens] : k \in 0 .. MaxStreamLen }

\* str.rfind: the 0-based index of the last occurrence, -1 when there is none
RECURSIVE RfindFrom(_, _, _)
RfindFrom(text, tok, k) ==
    IF k = 0 THEN -1
    ELSE IF text[k] = tok THEN k - 1
    ELSE RfindFrom(text, tok, k - 1)

Rfind(text, tok) == RfindFrom(text, tok, Len(text))

\* text[a:b] for 0 <= a, 0 <= b
Slice(text, a, b) ==
    IF b <= a THEN << >> ELSE SubSeq(text, a + 1, IF b > Len(text) THEN Len(text) ELSE b)

\* json.loads: the object (key -> value text), or a JSONDecodeError
JsonLoads(doc) ==
    IF doc = <<"{", "}">> THEN [ok |-> TRUE, obj |-> << >>]
    ELSE IF doc = <<"{", "FIVE", "}">> THEN [ok |-> TRUE, obj |-> FiveFields]
    ELSE IF doc = <<"{", "FOUR", "}">> THEN [ok |-> TRUE, obj |-> FourFields]
    ELSE IF doc = <<"{", "BAD", "}">> THEN [ok |-> TRUE, obj |-> BadFields]
    ELSE [ok |-> FALSE, obj |-> << >>]

RequiredKeys ==
    {"input_i", "input_lra", "input_tp", "input_thresh", "target_offset"}

\* the f-string of the measured values: a KeyError when a field is missing
StatsOutcome(doc) ==
    IF ~ JsonLoads(doc).ok THEN "JSONDecodeError"
    ELSE IF ~ (RequiredKeys \subseteq DOMAIN JsonLoads(doc).obj) THEN "KeyError"
    ELSE "stats"

\* audio_processor.py lines 71-96: "skip" is the else branch (src = pre)
ParseBasic(text) ==
    LET start == Rfind(text, "{")
        end == Rfind(text, "}")
    IN  IF start # -1 /\ end # -1
        THEN StatsOutcome(Slice(text, start, end + 1))
        ELSE "skip"

\* stats of line 75 (when ParseBasic is "stats")
StatsBasic(text) ==
    JsonLoads(Slice(text, Rfind(text, "{"), Rfind(text, "}") + 1)).obj

\* enhanced_audio_processor.py lines 172-201: "NoMeasurement" is the raise of
\* line 201
ParseEnhanced(stderr_text) ==
    LET json_start == Rfind(stderr_text, "{")
        json_end == Rfind(stderr_text, "}") + 1
    IN  IF json_start # -1 /\ json_end # -1
        THEN StatsOutcome(Slice(stderr_text, json_start, json_end))
        ELSE "NoMeasurement"

\* stats of line 177 (when ParseEnhanced is "stats")
StatsEnhanced(stderr_text) ==
    JsonLoads(Slice(stderr_text, Rfind(stderr_text, "{"),
                    Rfind(stderr_text, "}") + 1)).obj

----------------------------------------------------------------------------
(* The filters handed to ffmpeg *)

Filter(name, args) == [name |-> name, args |-> args]

\* str.join: the texts of `list` with `sep` between neighbours
RECURSIVE JoinWith(_, _)
JoinWith(list, sep) ==
    IF list = << >> THEN << >>
    ELSE IF Len(list) = 1 THEN list[1]
    ELSE list[1] \o <<sep>> \o JoinWith(Tail(list), sep)

\* the pieces of `text` between the occurrences of `sep`
RECURSIVE SplitOn(_, _)
SplitOn(text, sep) ==
    IF \A k \in 1 .. Len(text) : text[k] # sep THEN <<text>>
    ELSE LET k == CHOOSE j \in 1 .. Len(text) :
                     text[j] = sep /\ \A h \in 1 .. j - 1 : text[h] # sep
         IN  <<SubSeq(text, 1, k - 1)>>
               \o SplitOn(SubSeq(text, k + 1, Len(text)), sep)

\* ffmpeg -af: the filters of a chain are the pieces between the commas of
\* the expression; each piece is read as a filter name (its leading word)
\* followed by the text of its options
ReadGraph(text) ==
    LET pieces == SplitOn(text, ",")
    IN  [k \in 1 .. Len(pieces) |->
           IF pieces[k] = << >> THEN Filter("", [text |-> << >>])
           ELSE Filter(pieces[k][1], [text |-> Tail(pieces[k])])]

\* af of master_clean_audio (line 53).  An expression is kept as the sequence
\* of its words and of the characters "=", ":" and "," that stand between them.
BasicAf ==
    << "highpass", "=", "f=80", ",",
       "adeclick", ",",
       "afftdn", "=", "nr=20", ",",
       "deesser", "=", "f=6000", ":", "width=4000", ":", "threshold=0.2", ",",
       "dynaudnorm", "=", "f=200", ":", "g=15" >>

\* the filters ffmpeg reads from af (lines 54-60)
BasicChain == ReadGraph(BasicAf)

\* master_clean_audio, line 65: the measurement filter
BasicMeasureFilter ==
    Filter("loudnorm", [I |-> "-19", LRA |-> "7", TP |-> "-1.5",
                        print_format |-> "json"])

BasicCorrectionFilterThreshAsOffset(stats) ==
    Filter("loudnorm",
           [I |-> "-19", LRA |-> "7", TP |-> "-1.5",
            measured_I |-> stats.input_i, measured_LRA |-> stats.input_lra,
            measured_TP |-> stats.input_tp,
            measured_thresh |-> stats.input_thresh,
            offset |-> stats.input_thresh, linear |-> "true"])

\* master_clean_audio, lines 77-82: args
BasicCorrectionFilter(stats) ==
    Filter("loudnorm",
           [I |-> "-19", LRA |-> "7", TP |-> "-1.5",
            measured_I |-> stats.input_i, measured_LRA |-> stats.input_lra,
            measured_TP |-> stats.input_tp,
            measured_thresh |-> stats.input_thresh,
            offset |-> stats.target_offset, linear |-> "true"])

BasicFinalFiltersNoResample == << Filter("alimiter", [limit |-> "0.97"]) >>

\* master_clean_audio, line 99: af_final
BasicFinalFilters ==
    << Filter("aresample", [rate |-> "16000", resampler |-> "soxr",
                            precision |-> "28"]),
       Filter("alimiter", [limit |-> "0.97"]) >>

\* af_chain of _enhanced_audio_pipeline (lines 76-84)
af_chain ==
    << << "highpass", "=", "f=80" >>,
       << "lowpass", "=", "f=8000" >>,
       << "adeclick" >>,
       << "afftdn", "=", "nr=25", ":", "nf=-20" >>,
       << "deesser", "=", "f=6000", ":", "width=4000", ":", "threshold=0.15" >>,
       << "compand", "=", "0.1", ",", "0.3", ":", "-80", ",", "-80", ",", "-40",
          ",", "-25", ",", "-10", ",", "-10", ",", "0", ",", "0", ":", "6", ":",
          "0", ":", "-45" >>,
       << "dynaudnorm", "=", "f=200", ":", "g=15", ":", "s=9", ":", "r=0.95" >> >>

\* af=":".join(af_chain) (line 89)
EnhancedAf == JoinWith(af_chain, ":")

\* the filters ffmpeg reads from that expression (lines 86-92)
EnhancedChain == ReadGraph(EnhancedAf)

\* _two_pass_loudness_normalize, line 163: the measurement filter
EnhancedMeasureFilter ==
    Filter("loudnorm", [I |-> "-16", LRA |-> "7", TP |-> "-1.5",
                        print_format |-> "json"])

\* _two_pass_loudness_normalize, lines 180-187: normalization_args
EnhancedCorrectionFilter(stats) ==
    Filter("loudnorm",
           [I |-> "-16", LRA |-> "7", TP |-> "-1.5",
            measured_I |-> stats.input_i, measured_LRA |-> stats.input_lra,
            measured_TP |-> stats.input_tp,
            measured_thresh |-> stats.input_thresh,
            offset |-> stats.target_offset, linear |-> "true"])

\* _two_pass_loudness_normalize, lines 194 and 211: the filters after loudnorm
EnhancedFinalFilters ==
    << Filter("aresample", [rate |-> "16000", resampler |-> "soxr",
                            precision |-> "28"]),
       Filter("alimiter", [limit |-> "0.97"]) >>

\* _two_pass_loudness_normalize, line 211: the single-pass loudnorm
EnhancedFallbackFilter ==
    Filter("loudnorm", [I |-> "-16", LRA |-> "7", TP |-> "-1.5"])

\* _enhanced_audio_pipeline, line 105: af of the single-pass normalization
EnhancedSinglePassFilters ==
    << Filter("loudnorm", [I |-> "-16", LRA |-> "7", TP |-> "-1.5"]),
       Filter("aresample", [rate |-> "16000", resampler |-> "soxr",
                            precision |-> "28"]) >>

\* noisereduce.reduce_noise (lines 137-146), no ffmpeg filter
NoiseReduce ==
    Filter("noisereduce", [prop_decrease |-> "0.8", stationary |-> "False",
                           n_fft |-> "2048", win_length |-> "2048",
                           hop_length |-> "512"])

\* ffmpeg reads every value of a measured loudnorm as a number, or fails
AcceptsStats(stats) == \A k \in DOMAIN stats : IsFloatText(stats[k])

----------------------------------------------------------------------------
(* Sessions: the requests of main.py and the runs of the two processors *)

NoExc == [where |-> "", cause |-> ""]

Exc(where, cause) == [where |-> where, cause |-> cause]

\* a session before its request arrives
IdleSession ==
    [pc |-> "idle",
     origin |-> "none",          \* "file", "url": a request of main.py;
                                 \* "enhanced", "enhanced_pipeline",
                                 \* "master_clean": a call of that method
     two_pass |-> TRUE,          \* the two_pass argument
     video_path |-> NoPath,
     basic_audio |-> NoPath,     \* extract_audio's / _extract_basic_audio's result
     text |-> << >>,             \* the stderr of the measurement pass
     stats |-> << >>,            \* the parsed measurement (stats)
     src |-> NoPath,             \* master_clean_audio's src
     enhanced_failed |-> FALSE,  \* _enhanced_audio_pipeline returns None
     audio_path |-> NoPath,      \* extract_and_clean_audio's result
     transcript |-> "",          \* whose recording was transcribed
     diarization |-> "",         \* whose recording was diarized
     exc |-> NoExc]              \* the exception caught or raised

\* no update_progress call yet
NoProgress ==
    [session_id |-> "", message |-> << >>, progress |-> 0, stage |-> << >>,
     status |-> ""]

ProgressDataErrorAsProcessing(s, message, progress) ==
    [session_id |-> s, message |-> message, progress |-> progress,
     stage |-> message,
     status |-> IF progress >= 100 THEN "completed" ELSE "processing"]

\* ProgressTracker.update_progress: progress_data
ProgressData(s, message, progress) ==
    [session_id |-> s, message |-> message, progress |-> progress,
     stage |-> message,
     status |-> IF progress >= 100 THEN "completed"
                ELSE IF progress >= 0 THEN "processing" ELSE "error"]

\* ProgressTracker.update_progress; cacheOk and fileOk tell whether setex and
\* the file write succeed (their exceptions are caught and printed)
UpdateProgress(s, message, progress, cacheOk, fileOk) ==
    /\ redis' = IF cache_client /\ cacheOk
                THEN Write(redis, s, ProgressData(s, message, progress))
                ELSE redis
    /\ progress_files' = IF fileOk
                         THEN Write(progress_files, s,
                                    ProgressData(s, message, progress))
                         ELSE progress_files
    /\ reported' = [reported EXCEPT ![s] = ProgressData(s, message, progress)]

NoProgressUpdate == UNCHANGED << redis, progress_files, reported >>

\* f"Error: {str(e)}"
ErrorMessage(exc) == <<"Error: ", exc.where, exc.cause>>

\* upload_video (main.py lines 49-71): save the file, schedule
\* process_video_file
UploadVideo(s, E) ==
    /\ sess[s].pc = "idle"
    /\ \E name \in E.names :
          /\ fs' = Write(fs, UploadPath(s, name), MediaOf(s))
          /\ sess' = [sess EXCEPT ![s].pc = "pvf_start",
                                  ![s].origin = "file",
                                  ![s].video_path = UploadPath(s, name)]
    /\ NoProgressUpdate
    /\ UNCHANGED << written, cache_client, calls, mergeVars, utilVars >>

\* process_youtube_url (main.py lines 73-85): schedule process_video_url
ProcessYoutubeUrl(s, E) ==
    /\ sess[s].pc = "idle"
    /\ sess' = [sess EXCEPT ![s].pc = "url_start", ![s].origin = "url"]
    /\ NoProgressUpdate
    /\ UNCHANGED << fs, written, cache_client, calls, mergeVars, utilVars >>

\* a caller hands a video file to AudioProcessor.master_clean_audio
MasterCleanCall(s, E) ==
    /\ sess[s].pc = "idle"
    /\ \E name \in E.names, two_pass \in BOOLEAN :
          /\ fs' = Write(fs, UploadPath(s, name), MediaOf(s))
          /\ sess' = [sess EXCEPT ![s].pc = "mc_f32",
                                  ![s].origin = "master_clean",
                                  ![s].two_pass = two_pass,
                                  ![s].video_path = UploadPath(s, name)]
    /\ NoProgressUpdate
    /\ UNCHANGED << written, cache_client, calls, mergeVars, utilVars >>

\* a caller hands a video file to
\* EnhancedAudioProcessor._enhanced_audio_pipeline
EnhancedPipelineCall(s, E) ==
    /\ sess[s].pc = "idle"
    /\ \E name \in E.names, two_pass \in BOOLEAN :
          /\ fs' = Write(fs, UploadPath(s, name), MediaOf(s))
          /\ sess' = [sess EXCEPT ![s].pc = "e_raw",
                                  ![s].origin = "enhanced_pipeline",
                                  ![s].two_pass = two_pass,
                                  ![s].video_path = UploadPath(s, name)]
    /\ NoProgressUpdate
    /\ UNCHANGED << written, cache_client, calls, mergeVars, utilVars >>

\* a caller hands a video file to EnhancedAudioProcessor.extract_and_clean_audio
EnhancedCall(s, E) ==
    /\ sess[s].pc = "idle"
    /\ \E name \in E.names :
          /\ fs' = Write(fs, UploadPath(s, name), MediaOf(s))
          /\ sess' = [sess EXCEPT ![s].pc = "e_basic",
                                  ![s].origin = "enhanced",
                                  ![s].video_path = UploadPath(s, name)]
    /\ NoProgressUpdate
    /\ UNCHANGED << written, cache_client, calls, mergeVars, utilVars >>

\* process_video_url, line 192
UrlStart(s, E) ==
    /\ sess[s].pc = "url_start"
    /\ \E cacheOk \in E.cacheOk, fileOk \in E.fileOk :
          UpdateProgress(s, <<"Downloading video...">>, 5, cacheOk, fileOk)
    /\ sess' = [sess EXCEPT ![s].pc = "download"]
    /\ UNCHANGED << fs, written, cache_client, calls, mergeVars, utilVars >>

\* VideoProcessor.download_video, then the call of process_video_file; a
\* failure (invalid URL, download error) goes to line 201
DownloadVideo(s, E) ==
    /\ sess[s].pc = "download"
    /\ \E ok \in BOOLEAN, title \in E.names :
          IF ok
          THEN /\ fs' = Write(fs, DownloadPath(title), MediaOf(s))
               /\ written' = Log(s, DownloadPath(title))
               /\ sess' = [sess EXCEPT ![s].pc = "pvf_start",
                                       ![s].video_path = DownloadPath(title)]
          ELSE /\ sess' = [sess EXCEPT ![s].pc = "url_except",
                                       ![s].exc = Exc("download_video", "yt_dlp")]
               /\ UNCHANGED << fs, written >>
    /\ NoProgressUpdate
    /\ UNCHANGED << cache_client, calls, mergeVars, utilVars >>

\* process_video_url, lines 201-202
UrlExcept(s, E) ==
    /\ sess[s].pc = "url_except"
    /\ \E cacheOk \in E.cacheOk, fileOk \in E.fileOk :
          UpdateProgress(s, ErrorMessage(sess[s].exc), -1, cacheOk, fileOk)
    /\ sess' = [sess EXCEPT ![s].pc = "failed"]
    /\ UNCHANGED << fs, written, cache_client, calls, mergeVars, utilVars >>

\* process_video_file, line 142
PvfStart(s, E) ==
    /\ sess[s].pc = "pvf_start"
    /\ \E cacheOk \in E.cacheOk, fileOk \in E.fileOk :
          UpdateProgress(s, <<"Extracting audio...">>, 10, cacheOk, fileOk)
    /\ sess' = [sess EXCEPT ![s].pc = "extract"]
    /\ UNCHANGED << fs, written, cache_client, calls, mergeVars, utilVars >>

\* process_video_file, lines 186-187
PvfExcept(s, E) ==
    /\ sess[s].pc = "pvf_except"
    /\ \E cacheOk \in E.cacheOk, fileOk \in E.fileOk :
          UpdateProgress(s, ErrorMessage(sess[s].exc), -1, cacheOk, fileOk)
    /\ sess' = [sess EXCEPT ![s].pc = "failed"]
    /\ UNCHANGED << fs, written, cache_client, calls, mergeVars, utilVars >>

----------------------------------------------------------------------------
(* AudioProcessor *)

\* the session runs inside process_video_file
InRequest(s) == sess[s].origin \in {"file", "url"}

\* the result of a step that raises: into process_video_file's except clause,
\* or to the caller of master_clean_audio
RaiseToPvf(s, where, cause) ==
    [sess EXCEPT ![s].pc = IF InRequest(s) THEN "pvf_except" ELSE "raised",
                 ![s].exc = Exc(where, cause),
                 ![s].text = << >>]

\* extract_audio (lines 18-31), called at line 11
ExtractAudio(s, E) ==
    /\ sess[s].pc = "extract"
    /\ LET video == sess[s].video_path
           output == ExtractedAudioPath(video)
       IN  \E ok \in BOOLEAN :
              IF ok /\ Exists(video)
              THEN /\ fs' = Write(fs, output,
                                  Transcode(fs[video], << >>, "pcm_s16le", "1", "16000"))
                   /\ written' = Log(s, output)
                   /\ sess' = [sess EXCEPT ![s].pc = "mc_f32",
                                           ![s].basic_audio = output]
              ELSE /\ sess' = RaiseToPvf(s, "extract_audio", "ffmpeg")
                   /\ UNCHANGED << fs, written >>
    /\ NoProgressUpdate
    /\ calls' = Invoke(s, << >>)
    /\ UNCHANGED << cache_client, mergeVars, utilVars >>

\* master_clean_audio, lines 43-50: extract to float32 mono
McExtractF32(s, E) ==
    /\ sess[s].pc = "mc_f32"
    /\ LET video == sess[s].video_path
           tmp_f32 == TmpF32Path(video)
       IN  \E ok \in BOOLEAN :
              IF ok /\ Exists(video)
              THEN /\ fs' = Write(fs, tmp_f32,
                                  Transcode(fs[video], << >>, "pcm_f32le", "1", "same"))
                   /\ written' = Log(s, tmp_f32)
                   /\ sess' = [sess EXCEPT ![s].pc = "mc_chain"]
              ELSE /\ sess' = RaiseToPvf(s, "master_clean_audio", "ffmpeg")
                   /\ UNCHANGED << fs, written >>
    /\ NoProgressUpdate
    /\ calls' = Invoke(s, << >>)
    /\ UNCHANGED << cache_client, mergeVars, utilVars >>

\* master_clean_audio, lines 52-62 and 95-96: the cleaning chain
McChain(s, E) ==
    /\ sess[s].pc = "mc_chain"
    /\ LET tmp_f32 == TmpF32Path(sess[s].video_path)
           pre == PrePath(sess[s].video_path)
       IN  \E ok \in BOOLEAN :
              IF ok /\ Exists(tmp_f32)
              THEN /\ fs' = Write(fs, pre,
                                  Transcode(fs[tmp_f32], BasicChain, "pcm_f32le",
                                            "same", "same"))
                   /\ written' = Log(s, pre)
                   /\ sess' = IF sess[s].two_pass
                              THEN [sess EXCEPT ![s].pc = "mc_measure"]
                              ELSE [sess EXCEPT ![s].pc = "mc_final",
                                                ![s].src = pre]
              ELSE /\ sess' = RaiseToPvf(s, "master_clean_audio", "ffmpeg")
                   /\ UNCHANGED << fs, written >>
    /\ NoProgressUpdate
    /\ calls' = Invoke(s, BasicChain)
    /\ UNCHANGED << cache_client, mergeVars, utilVars >>

\* master_clean_audio, lines 63-71: subprocess.run of the measurement pass
\* (no check=True: a failing ffmpeg only changes the text of stderr)
McMeasure(s, E) ==
    /\ sess[s].pc = "mc_measure"
    /\ \E text \in E.streams :
          sess' = [sess EXCEPT ![s].pc = "mc_parse", ![s].text = text]
    /\ NoProgressUpdate
    /\ calls' = Invoke(s, <<BasicMeasureFilter>>)
    /\ UNCHANGED << fs, written, cache_client, mergeVars, utilVars >>

\* master_clean_audio, lines 72-96: find and parse the JSON object
McParse(s, E) ==
    /\ sess[s].pc = "mc_parse"
    /\ LET outcome == ParseBasic(sess[s].text)
       IN  sess' =
             IF outcome = "stats"
             THEN [sess EXCEPT ![s].pc = "mc_apply",
                               ![s].stats = StatsBasic(sess[s].text)]
             ELSE IF outcome = "skip"
             THEN [sess EXCEPT ![s].pc = "mc_final", ![s].text = << >>,
                               ![s].src = PrePath(sess[s].video_path)]
             ELSE RaiseToPvf(s, "master_clean_audio", outcome)
    /\ NoProgressUpdate
    /\ UNCHANGED << fs, written, cache_client, calls, mergeVars, utilVars >>

\* master_clean_audio, lines 84-92: apply the measured loudness
McApply(s, E) ==
    /\ sess[s].pc = "mc_apply"
    /\ LET pre == PrePath(sess[s].video_path)
           norm == NormPath(sess[s].video_path)
       IN  \E ok \in BOOLEAN :
              IF ok /\ Exists(pre) /\ AcceptsStats(sess[s].stats)
              THEN /\ fs' = Write(fs, norm,
                                  Transcode(fs[pre],
                                            <<BasicCorrectionFilter(sess[s].stats)>>,
                                            "pcm_f32le", "same", "same"))
                   /\ written' = Log(s, norm)
                   /\ sess' = [sess EXCEPT ![s].pc = "mc_final", ![s].src = norm,
                                           ![s].text = << >>]
              ELSE /\ sess' = RaiseToPvf(s, "master_clean_audio", "ffmpeg")
                   /\ UNCHANGED << fs, written >>
    /\ NoProgressUpdate
    /\ calls' = Invoke(s, <<BasicCorrectionFilter(sess[s].stats)>>)
    /\ UNCHANGED << cache_client, mergeVars, utilVars >>

\* master_clean_audio, lines 98-106: final resampling and limiting
McFinal(s, E) ==
    /\ sess[s].pc = "mc_final"
    /\ LET src == sess[s].src
           out_wav == OutWavPath(sess[s].video_path)
       IN  \E ok \in BOOLEAN :
              IF ok /\ Exists(src)
              THEN /\ fs' = Write(fs, out_wav,
                                  Transcode(fs[src], BasicFinalFilters,
                                            "pcm_s16le", "1", "same"))
                   /\ written' = Log(s, out_wav)
                   /\ sess' = [sess EXCEPT ![s].pc = "mc_cleanup"]
              ELSE /\ sess' = RaiseToPvf(s, "master_clean_audio", "ffmpeg")
                   /\ UNCHANGED << fs, written >>
    /\ NoProgressUpdate
    /\ calls' = Invoke(s, BasicFinalFilters)
    /\ UNCHANGED << cache_client, mergeVars, utilVars >>

\* master_clean_audio, lines 108-116: remove the temp files and return
\* out_wav; extract_and_clean_audio returns it (line 16); process_video_file,
\* line 148
McCleanup(s, E) ==
    /\ sess[s].pc = "mc_cleanup"
    /\ LET video == sess[s].video_path
       IN  /\ fs' = Remove(fs, {TmpF32Path(video), PrePath(video), NormPath(video)})
           /\ sess' = [sess EXCEPT ![s].pc = IF InRequest(s) THEN "transcribe"
                                             ELSE "returned",
                                   ![s].audio_path = OutWavPath(video)]
    /\ IF InRequest(s)
       THEN \E cacheOk \in E.cacheOk, fileOk \in E.fileOk :
               UpdateProgress(s, <<"Transcribing with Whisper...">>, 30,
                              cacheOk, fileOk)
       ELSE NoProgressUpdate
    /\ UNCHANGED << written, cache_client, calls, mergeVars, utilVars >>

----------------------------------------------------------------------------
(* process_video_file after the audio: transcription, diarization, summary *)

\* TranscriptionService.transcribe (line 152), then line 154
Transcribe(s, E) ==
    /\ sess[s].pc = "transcribe"
    /\ \E ok \in BOOLEAN :
          IF ok /\ Exists(sess[s].audio_path)
          THEN /\ sess' = [sess EXCEPT ![s].pc = "diarize_standardize",
                                       ![s].transcript = fs[sess[s].audio_path].owner]
               /\ \E cacheOk \in E.cacheOk, fileOk \in E.fileOk :
                     UpdateProgress(s, <<"Analyzing speaker moments...">>, 60,
                                    cacheOk, fileOk)
          ELSE /\ sess' = RaiseToPvf(s, "transcribe", "whisper")
               /\ NoProgressUpdate
    /\ calls' = Invoke(s, << >>)
    /\ UNCHANGED << fs, written, cache_client, mergeVars, utilVars >>

\* DiarizationService.diarize, lines 23-38: standardize the audio
DiarizeStandardize(s, E) ==
    /\ sess[s].pc = "diarize_standardize"
    /\ LET audio_path == sess[s].audio_path
       IN  \E ok \in BOOLEAN :
              IF ok /\ Exists(audio_path)
              THEN /\ fs' = Write(fs, DiarizationInputPath,
                                  Transcode(fs[audio_path], << >>, "pcm_s16le",
                                            "1", "16000"))
                   /\ written' = Log(s, DiarizationInputPath)
                   /\ sess' = [sess EXCEPT ![s].pc = "diarize_infer"]
              ELSE /\ sess' = RaiseToPvf(s, "diarize", "ffmpeg")
                   /\ UNCHANGED << fs, written >>
    /\ NoProgressUpdate
    /\ calls' = Invoke(s, << >>)
    /\ UNCHANGED << cache_client, mergeVars, utilVars >>

\* DiarizationService.diarize, lines 40-74: load the model, run it on
\* processed_audio_path; then process_video_file, line 160
DiarizeInfer(s, E) ==
    /\ sess[s].pc = "diarize_infer"
    /\ \E ok \in BOOLEAN :
          IF ok /\ Exists(DiarizationInputPath)
          THEN /\ sess' = [sess EXCEPT ![s].pc = "summarize",
                                       ![s].diarization = fs[DiarizationInputPath].owner]
               /\ \E cacheOk \in E.cacheOk, fileOk \in E.fileOk :
                     UpdateProgress(s, <<"Generating summary...">>, 80,
                                    cacheOk, fileOk)
          ELSE /\ sess' = RaiseToPvf(s, "diarize", "pyannote")
               /\ NoProgressUpdate
    /\ calls' = Invoke(s, << >>)
    /\ UNCHANGED << fs, written, cache_client, mergeVars, utilVars >>

\* SummarizationService.summarize (it returns None on failure), then line 166
Summarize(s, E) ==
    /\ sess[s].pc = "summarize"
    /\ sess' = [sess EXCEPT ![s].pc = "save_open"]
    /\ \E cacheOk \in E.cacheOk, fileOk \in E.fileOk :
          UpdateProgress(s, <<"Finalizing results...">>, 90, cacheOk, fileOk)
    /\ calls' = Invoke(s, << >>)
    /\ UNCHANGED << fs, written, cache_client, mergeVars, utilVars >>

\* the content of results.json
ResultsOf(s, complete) ==
    [complete |-> complete, transcript |-> sess[s].transcript,
     diarization |-> sess[s].diarization, video_path |-> sess[s].video_path,
     audio_path |-> sess[s].audio_path]

\* process_video_file, lines 178-181: open results.json for writing (the
\* file then exists, with nothing of the results in it yet), or os.makedirs
\* or open raises
SaveOpen(s, E) ==
    /\ sess[s].pc = "save_open"
    /\ \E ok \in BOOLEAN :
          IF ok
          THEN /\ fs' = Write(fs, ResultsPath(s), ResultsOf(s, FALSE))
               /\ sess' = [sess EXCEPT ![s].pc = "save_dump"]
          ELSE /\ sess' = RaiseToPvf(s, "process_video_file", "open")
               /\ UNCHANGED fs
    /\ NoProgressUpdate
    /\ UNCHANGED << written, cache_client, calls, mergeVars, utilVars >>

SaveDumpSwallowsFailure(s, E) ==
    /\ sess[s].pc = "save_dump"
    /\ \E ok \in BOOLEAN :
          IF ok
          THEN /\ fs' = Write(fs, ResultsPath(s), ResultsOf(s, TRUE))
               /\ sess' = [sess EXCEPT ![s].pc = "complete"]
          ELSE /\ sess' = [sess EXCEPT ![s].pc = "complete"]
               /\ UNCHANGED fs
    /\ NoProgressUpdate
    /\ UNCHANGED << written, cache_client, calls, mergeVars, utilVars >>

\* process_video_file, line 182: json.dump and close, or json.dump raises and
\* leaves the file as far as it was written
SaveDump(s, E) ==
    /\ sess[s].pc = "save_dump"
    /\ \E ok \in BOOLEAN :
          IF ok
          THEN /\ fs' = Write(fs, ResultsPath(s), ResultsOf(s, TRUE))
               /\ sess' = [sess EXCEPT ![s].pc = "complete"]
          ELSE /\ sess' = RaiseToPvf(s, "process_video_file", "json.dump")
               /\ UNCHANGED fs
    /\ NoProgressUpdate
    /\ UNCHANGED << written, cache_client, calls, mergeVars, utilVars >>

\* process_video_file, line 184
Complete(s, E) ==
    /\ sess[s].pc = "complete"
    /\ \E cacheOk \in E.cacheOk, fileOk \in E.fileOk :
          UpdateProgress(s, <<"Complete!">>, 100, cacheOk, fileOk)
    /\ sess' = [sess EXCEPT ![s].pc = "done"]
    /\ UNCHANGED << fs, written, cache_client, calls, mergeVars, utilVars >>

----------------------------------------------------------------------------
(* EnhancedAudioProcessor *)

\* _extract_basic_audio (lines 33-47) and lines 21-23
ExtractBasicAudio(s, E) ==
    /\ sess[s].pc = "e_basic"
    /\ LET video == sess[s].video_path
           output == BasicPath(video)
       IN  \E ok \in BOOLEAN :
              IF ok /\ Exists(video)
              THEN /\ fs' = Write(fs, output,
                                  Transcode(fs[video], << >>, "pcm_s16le", "1", "16000"))
                   /\ written' = Log(s, output)
                   /\ sess' = [sess EXCEPT ![s].pc = "e_raw",
                                           ![s].basic_audio = output]
              ELSE /\ sess' = [sess EXCEPT ![s].pc = "raised",
                                           ![s].exc = Exc("extract_and_clean_audio",
                                                          "Failed to extract basic audio")]
                   /\ UNCHANGED << fs, written >>
    /\ NoProgressUpdate
    /\ calls' = Invoke(s, << >>)
    /\ UNCHANGED << cache_client, mergeVars, utilVars >>

\* an exception inside the try of _enhanced_audio_pipeline: lines 115-117
PipelineFails(s) ==
    [sess EXCEPT ![s].pc = "e_finally", ![s].enhanced_failed = TRUE,
                 ![s].text = << >>]

\* _enhanced_audio_pipeline, lines 60-68
ExtractRaw(s, E) ==
    /\ sess[s].pc = "e_raw"
    /\ LET video == sess[s].video_path
           raw_audio == RawPath(video)
       IN  \E ok \in BOOLEAN :
              IF ok /\ Exists(video)
              THEN /\ fs' = Write(fs, raw_audio,
                                  Transcode(fs[video], << >>, "pcm_f32le", "1", "44100"))
                   /\ written' = Log(s, raw_audio)
                   /\ sess' = [sess EXCEPT ![s].pc = "e_denoise"]
              ELSE /\ sess' = PipelineFails(s)
                   /\ UNCHANGED << fs, written >>
    /\ NoProgressUpdate
    /\ calls' = Invoke(s, << >>)
    /\ UNCHANGED << cache_client, mergeVars, utilVars >>

\* _apply_noise_reduction (lines 128-155): reduce the noise (ok), or copy
\* the input when that fails; shutil.copy2 (line 155) is outside every try of
\* the method, so when it fails too (copied = FALSE, or the input is gone)
\* the exception reaches _enhanced_audio_pipeline
ApplyNoiseReduction(s, E) ==
    /\ sess[s].pc = "e_denoise"
    /\ LET input_path == RawPath(sess[s].video_path)
           output_path == DenoisedPath(sess[s].video_path)
       IN  \E ok \in BOOLEAN, copied \in BOOLEAN :
              IF Exists(input_path) /\ (ok \/ copied)
              THEN /\ fs' = Write(fs, output_path,
                                  IF ok
                                  THEN Transcode(fs[input_path], <<NoiseReduce>>,
                                                 "pcm_f32le", "same", "same")
                                  ELSE fs[input_path])
                   /\ written' = Log(s, output_path)
                   /\ sess' = [sess EXCEPT ![s].pc = "e_chain"]
              ELSE /\ sess' = PipelineFails(s)
                   /\ UNCHANGED << fs, written >>
    /\ NoProgressUpdate
    /\ calls' = Invoke(s, <<NoiseReduce>>)
    /\ UNCHANGED << cache_client, mergeVars, utilVars >>

\* _enhanced_audio_pipeline, lines 86-95.  As for every run of the tool, both
\* outcomes are kept: the run completes, having applied what ffmpeg read from
\* the expression, or it raises.
EnhancedFilter(s, E) ==
    /\ sess[s].pc = "e_chain"
    /\ LET denoised_audio == DenoisedPath(sess[s].video_path)
           cleaned_audio == CleanedPath(sess[s].video_path)
       IN  \E ok \in BOOLEAN :
              IF ok /\ Exists(denoised_audio)
              THEN /\ fs' = Write(fs, cleaned_audio,
                                  Transcode(fs[denoised_audio], EnhancedChain,
                                            "pcm_f32le", "same", "same"))
                   /\ written' = Log(s, cleaned_audio)
                   /\ sess' = [sess EXCEPT ![s].pc = IF sess[s].two_pass
                                                     THEN "e_measure"
                                                     ELSE "e_single"]
              ELSE /\ sess' = PipelineFails(s)
                   /\ UNCHANGED << fs, written >>
    /\ NoProgressUpdate
    /\ calls' = Invoke(s, EnhancedChain)
    /\ UNCHANGED << cache_client, mergeVars, utilVars >>

\* _enhanced_audio_pipeline, lines 98-110: single-pass normalization when
\* two_pass is False
EnhancedSinglePass(s, E) ==
    /\ sess[s].pc = "e_single"
    /\ LET input_path == CleanedPath(sess[s].video_path)
           output_path == FinalOutputPath(sess[s].video_path)
       IN  \E ok \in BOOLEAN :
              IF ok /\ Exists(input_path)
              THEN /\ fs' = Write(fs, output_path,
                                  Transcode(fs[input_path], EnhancedSinglePassFilters,
                                            "pcm_s16le", "1", "same"))
                   /\ written' = Log(s, output_path)
                   /\ sess' = [sess EXCEPT ![s].pc = "e_finally"]
              ELSE /\ sess' = PipelineFails(s)
                   /\ UNCHANGED << fs, written >>
    /\ NoProgressUpdate
    /\ calls' = Invoke(s, EnhancedSinglePassFilters)
    /\ UNCHANGED << cache_client, mergeVars, utilVars >>

\* _two_pass_loudness_normalize, lines 160-172: the measurement pass
EnhancedMeasure(s, E) ==
    /\ sess[s].pc = "e_measure"
    /\ \E stderr_text \in E.streams :
          sess' = [sess EXCEPT ![s].pc = "e_parse", ![s].text = stderr_text]
    /\ NoProgressUpdate
    /\ calls' = Invoke(s, <<EnhancedMeasureFilter>>)
    /\ UNCHANGED << fs, written, cache_client, mergeVars, utilVars >>

\* _two_pass_loudness_normalize, lines 173-187 and 200-204: every exception
\* leads to the single-pass fallback
EnhancedParse(s, E) ==
    /\ sess[s].pc = "e_parse"
    /\ sess' = IF ParseEnhanced(sess[s].text) = "stats"
               THEN [sess EXCEPT ![s].pc = "e_apply",
                                 ![s].stats = StatsEnhanced(sess[s].text)]
               ELSE [sess EXCEPT ![s].pc = "e_fallback", ![s].text = << >>]
    /\ NoProgressUpdate
    /\ UNCHANGED << fs, written, cache_client, calls, mergeVars, utilVars >>

\* _two_pass_loudness_normalize, lines 189-199: the correction pass
EnhancedApply(s, E) ==
    /\ sess[s].pc = "e_apply"
    /\ LET input_path == CleanedPath(sess[s].video_path)
           output_path == FinalOutputPath(sess[s].video_path)
       IN  \E ok \in BOOLEAN :
              IF ok /\ Exists(input_path) /\ AcceptsStats(sess[s].stats)
              THEN /\ fs' = Write(fs, output_path,
                                  Transcode(fs[input_path],
                                            <<EnhancedCorrectionFilter(sess[s].stats)>>
                                                \o EnhancedFinalFilters,
                                            "pcm_s16le", "1", "same"))
                   /\ written' = Log(s, output_path)
                   /\ sess' = [sess EXCEPT ![s].pc = "e_finally",
                                           ![s].text = << >>]
              ELSE /\ sess' = [sess EXCEPT ![s].pc = "e_fallback",
                                           ![s].text = << >>]
                   /\ UNCHANGED << fs, written >>
    /\ NoProgressUpdate
    /\ calls' = Invoke(s, <<EnhancedCorrectionFilter(sess[s].stats)>> \o EnhancedFinalFilters)
    /\ UNCHANGED << cache_client, mergeVars, utilVars >>

\* _two_pass_loudness_normalize, lines 203-216: the single-pass fallback
EnhancedFallback(s, E) ==
    /\ sess[s].pc = "e_fallback"
    /\ LET input_path == CleanedPath(sess[s].video_path)
           output_path == FinalOutputPath(sess[s].video_path)
       IN  \E ok \in BOOLEAN :
              IF ok /\ Exists(input_path)
              THEN /\ fs' = Write(fs, output_path,
                                  Transcode(fs[input_path],
                                            <<EnhancedFallbackFilter>>
                                                \o EnhancedFinalFilters,
                                            "pcm_s16le", "1", "same"))
                   /\ written' = Log(s, output_path)
                   /\ sess' = [sess EXCEPT ![s].pc = "e_finally"]
              ELSE /\ sess' = PipelineFails(s)
                   /\ UNCHANGED << fs, written >>
    /\ NoProgressUpdate
    /\ calls' = Invoke(s, <<EnhancedFallbackFilter>> \o EnhancedFinalFilters)
    /\ UNCHANGED << cache_client, mergeVars, utilVars >>

\* _enhanced_audio_pipeline, lines 119-126 (finally), its return value, and
\* extract_and_clean_audio, lines 27-31
EnhancedFinally(s, E) ==
    /\ sess[s].pc = "e_finally"
    /\ LET video == sess[s].video_path
       IN  /\ fs' = Remove(fs, {RawPath(video), DenoisedPath(video), CleanedPath(video)})
           /\ sess' = [sess EXCEPT ![s].pc = "returned",
                                   ![s].audio_path =
                                       IF sess[s].enhanced_failed
                                       THEN sess[s].basic_audio
                                       ELSE FinalOutputPath(video)]
    /\ NoProgressUpdate
    /\ UNCHANGED << written, cache_client, calls, mergeVars, utilVars >>

----------------------------------------------------------------------------
(* The polling and export endpoints of main.py *)

\* no request answered yet
NoResponse ==
    [endpoint |-> "", session_id |-> "", status |-> 0, body |-> << >>,
     turn |-> 0]

\* the answer of `endpoint` for session s; turn tells one answer from the next
Respond(endpoint, s, status, body) ==
    [endpoint |-> endpoint, session_id |-> s, status |-> status, body |-> body,
     turn |-> 1 - response.turn]

\* ProgressTracker.get_progress, lines 60-66: the default response
DefaultProgress(s) ==
    [session_id |-> s, message |-> <<"Processing...">>, progress |-> 0,
     stage |-> <<"Initializing">>, status |-> "processing"]

\* ProgressTracker.get_progress (lines 38-66); getOk and readOk tell whether
\* the cache read and the file read succeed (their exceptions are caught)
TrackerGetProgress(s, getOk, readOk) ==
    IF cache_client /\ getOk /\ s \in DOMAIN redis THEN redis[s]
    ELSE IF s \in DOMAIN progress_files /\ readOk THEN progress_files[s]
    ELSE DefaultProgress(s)

\* GET /api/progress/{session_id} (main.py lines 87-91)
GetProgressWith(s, getOk, readOk) ==
    /\ response' = Respond("progress", s, 200,
                           TrackerGetProgress(s, getOk, readOk))
    /\ UNCHANGED << noiseVars, splitVars, mergeVars, pipeVars >>

GetProgress(s, E) ==
    \E getOk \in E.cacheOk, readOk \in E.fileOk : GetProgressWith(s, getOk, readOk)

\* setex(key, 3600, ...) (progress_tracker.py line 24): the key is gone an
\* hour after its last write
RedisExpire(s) ==
    /\ s \in DOMAIN redis
    /\ redis' = Remove(redis, {s})
    /\ UNCHANGED << fs, sess, written, progress_files, cache_client, calls,
                    reported, mergeVars, utilVars >>

\* json.load of results.json: the results, or a JSONDecodeError for a file
\* that was opened for writing and not yet (or never) dumped in full
ResultsLoads(s) == fs[ResultsPath(s)].complete

\* GET /api/results/{session_id} (main.py lines 93-107)
GetResults(s, E) ==
    /\ response' =
         IF ~ Exists(ResultsPath(s))
         THEN Respond("results", s, 200,
                      [status |-> "processing", results |-> << >>])
         ELSE IF ResultsLoads(s)
         THEN Respond("results", s, 200,
                      [status |-> "completed", results |-> fs[ResultsPath(s)]])
         ELSE Respond("results", s, 500,
                      [detail |-> <<"Failed to get results: ", "JSONDecodeError">>])
    /\ UNCHANGED << noiseVars, splitVars, mergeVars, pipeVars >>

\* the formats a client may ask for: two that ExportService knows, one that
\* it does not
ExportFormats == {"txt", "json", "pdf"}

\* export_service.py lines 17-28
SupportedFormats == {"txt", "md", "srt", "vtt", "json", "zip"}

\* export_service.py: exports/{session_id}/transcript.txt, analysis.json, ...
ExportPath(s, format) ==
    [dir |-> <<"exports", s>>, stem |-> <<"export">>, ext |-> format]

\* ExportService.export_results (lines 8-31): the exception it raises, or
\* "path" when it has written the export and returns its path
ExportOutcome(s, format) ==
    IF ~ Exists(ResultsPath(s)) THEN "FileNotFoundError"
    ELSE IF ~ ResultsLoads(s) THEN "JSONDecodeError"
    ELSE IF format \notin SupportedFormats THEN "ValueError"
    ELSE "path"

\* GET /api/export/{session_id}/{format} (main.py lines 120-137).  `present`
\* tells whether the returned path still exists when line 127 looks (the
\* export directory may have been cleared in between).  The HTTPException of
\* line 128 is raised inside the try, and line 136 catches every Exception.
ExportResults(s, E) ==
    /\ \E format \in ExportFormats, present \in BOOLEAN :
          LET outcome == ExportOutcome(s, format)
              file_path == ExportPath(s, format)
          IN  IF outcome # "path"
              THEN /\ response' = Respond("export", s, 500,
                                          [detail |-> <<"Export failed: ", outcome>>])
                   /\ UNCHANGED fs
              ELSE IF ~ present
              THEN /\ response' =
                        Respond("export", s, 500,
                                [detail |-> <<"Export failed: ",
                                              "404: Export file not found">>])
                   /\ fs' = Remove(fs, {file_path})
              ELSE /\ response' = Respond("export", s, 200, [file |-> file_path])
                   /\ fs' = Write(fs, file_path,
                                  [owner |-> s, complete |-> TRUE,
                                   format |-> format])
    /\ UNCHANGED << sess, written, redis, progress_files, cache_client, calls,
                    reported, noiseVars, splitVars, mergeVars >>

----------------------------------------------------------------------------
(* _apply_noise_reduction: the noise profile *)

MaxSamples == 35
MaxRate == 3

\* audio_data of line 132: a clip of n samples, each kept as its position
Clip(n) == [k \in 1 .. n |-> k]

Min(a, b) == IF a <= b THEN a ELSE b

NoiseSampleLengthOneSecond(rate, data) == rate

\* line 136: noise_sample_length
NoiseSampleLength(rate, data) == Min(rate, Len(data) \div 10)

NoiseIdle ==
    /\ audio_data = << >>
    /\ sample_rate = 0
    /\ y_noise = << >>
    /\ npc = "off"

\* lines 136-146: the profile is audio_data[:noise_sample_length], passed to
\* nr.reduce_noise as y_noise
ReduceNoise ==
    /\ npc = "loaded"
    /\ y_noise' = Slice(audio_data, 0,
                        NoiseSampleLength(sample_rate, audio_data))
    /\ npc' = "reduce"
    /\ UNCHANGED << audio_data, sample_rate, apiVars, splitVars, mergeVars,
                    pipeVars >>

----------------------------------------------------------------------------
(* SummarizationService.split_text_into_chunks *)

MaxTextLen == 5
MaxChunkSize == 3

\* the characters of a text: two letters and the blank
TextChars == {"a", "b", " "}

Texts == UNION { [1 .. k -> TextChars] : k \in 0 .. MaxTextLen }

\* str.split(): the maximal runs of non-blank characters, in order
RECURSIVE PySplit(_)
PySplit(str) ==
    LET rest == LStrip(str)
    IN  IF rest = << >> THEN << >>
        ELSE LET k == IF \A j \in 1 .. Len(rest) : ~ IsSpace(rest[j])
                      THEN Len(rest) + 1
                      ELSE CHOOSE j \in 1 .. Len(rest) :
                              /\ IsSpace(rest[j])
                              /\ \A h \in 1 .. j - 1 : ~ IsSpace(rest[h])
             IN  <<SubSeq(rest, 1, k - 1)>>
                   \o PySplit(SubSeq(rest, k, Len(rest)))

NextStartNoOverlap(st, size, ov) == st + size

\* line 26: start += (chunk_size - overlap)
NextStart(st, size, ov) == st + (size - ov)

SplitIdle ==
    /\ split_text = << >>
    /\ chunk_size = 0
    /\ overlap = 0
    /\ split_words = << >>
    /\ chunks = << >>
    /\ split_start = 0
    /\ spc = "off"

\* lines 14-18: words = text.split(); return [] when there are none
SplitWords ==
    /\ spc = "start"
    /\ split_words' = PySplit(split_text)
    /\ chunks' = << >>
    /\ split_start' = 0
    /\ spc' = IF PySplit(split_text) = << >> THEN "returned" ELSE "loop"
    /\ UNCHANGED << split_text, chunk_size, overlap, noiseVars, apiVars,
                    mergeVars, pipeVars >>

\* lines 19-27: the loop test and one pass through the loop body
SplitChunk ==
    /\ spc = "loop"
    /\ IF split_start < Len(split_words)
       THEN LET end == split_start + chunk_size
                chunk_words == Slice(split_words, split_start, end)
            IN  /\ chunks' = Append(chunks, JoinWith(chunk_words, " "))
                /\ IF end >= Len(split_words)
                   THEN /\ spc' = "returned"
                        /\ UNCHANGED split_start
                   ELSE /\ split_start' =
                             NextStart(split_start, chunk_size, overlap)
                        /\ UNCHANGED spc
       ELSE /\ spc' = "returned"
            /\ UNCHANGED << chunks, split_start >>
    /\ UNCHANGED << split_text, chunk_size, overlap, split_words, noiseVars,
                    apiVars, mergeVars, pipeVars >>

UtilIdle == NoiseIdle /\ response = NoResponse /\ SplitIdle

----------------------------------------------------------------------------
(* Specifications *)

\* one step of the request of session s: the endpoints of main.py that start
\* it and its background task
RequestStep(s, E) ==
    \/ UploadVideo(s, E) \/ ProcessYoutubeUrl(s, E)
    \/ UrlStart(s, E) \/ DownloadVideo(s, E) \/ UrlExcept(s, E)
    \/ PvfStart(s, E) \/ PvfExcept(s, E)
    \/ ExtractAudio(s, E) \/ McExtractF32(s, E) \/ McChain(s, E)
    \/ McMeasure(s, E) \/ McParse(s, E) \/ McApply(s, E) \/ McFinal(s, E)
    \/ McCleanup(s, E)
    \/ Transcribe(s, E) \/ DiarizeStandardize(s, E) \/ DiarizeInfer(s, E)
    \/ Summarize(s, E) \/ SaveOpen(s, E) \/ SaveDump(s, E) \/ Complete(s, E)

\* one step of session s in the environment E: of its request, or of a call
\* of one of the processors' methods
Step(s, E) ==
    \/ RequestStep(s, E)
    \/ EnhancedCall(s, E)
    \/ MasterCleanCall(s, E) \/ EnhancedPipelineCall(s, E)
    \/ ExtractBasicAudio(s, E) \/ ExtractRaw(s, E) \/ ApplyNoiseReduction(s, E)
    \/ EnhancedFilter(s, E) \/ EnhancedSinglePass(s, E)
    \/ EnhancedMeasure(s, E) \/ EnhancedParse(s, E)
    \/ EnhancedApply(s, E) \/ EnhancedFallback(s, E) \/ EnhancedFinally(s, E)

MergeIdle ==
    /\ whisper_result = << >>
    /\ diarization_result = << >>
    /\ words_with_speakers = << >>
    /\ current_chunk = NoChunk
    /\ speaker_chunks = << >>
    /\ i = 0
    /\ mpc = "off"

PipeInit(E) ==
    /\ fs = << >>
    /\ sess = [s \in Sessions |-> IdleSession]
    /\ written = [s \in Sessions |-> {}]
    /\ redis = << >>
    /\ progress_files = << >>
    /\ cache_client \in E.clients
    /\ calls = [s \in Sessions |-> << >>]
    /\ reported = [s \in Sessions |-> NoProgress]

\* one run at a time: every diagnostic stream, every outcome of the tracker
RunEnv ==
    [streams |-> Streams, names |-> Names, clients |-> BOOLEAN,
     cacheOk |-> BOOLEAN, fileOk |-> BOOLEAN]

RunInit == MergeIdle /\ PipeInit(RunEnv) /\ UtilIdle

RunNext == Step("s1", RunEnv)

SpecRun == RunInit /\ [][RunNext]_vars

\* sessions side by side (one worker process each, on one working
\* directory): a few diagnostic streams, a tracker that works
SessionsEnv ==
    [streams |-> { << >>, <<"{", "FIVE", "}">>, <<"}", "{">> },
     names |-> Names, clients |-> {TRUE}, cacheOk |-> {TRUE},
     fileOk |-> {TRUE}]

SessionsInit == MergeIdle /\ PipeInit(SessionsEnv) /\ UtilIdle

SessionsNext == \E s \in Sessions : Step(s, SessionsEnv)

SpecSessions == SessionsInit /\ [][SessionsNext]_vars

MergeInit ==
    /\ whisper_result \in WhisperResults
    /\ diarization_result \in TurnLists
    /\ words_with_speakers = << >>
    /\ current_chunk = NoChunk
    /\ speaker_chunks = << >>
    /\ i = 0
    /\ mpc = "start"
    /\ PipeInit([clients |-> {FALSE}])
    /\ UtilIdle

MergeNext == MergeEmpty \/ AssignSpeakers \/ GroupWord \/ MergeReturn

SpecMerge == MergeInit /\ [][MergeNext]_vars

\* one request of main.py and the polling and export endpoints called while
\* it runs (the endpoints are served by another worker of the same
\* application, on the same working directory and cache)
ApiEnv ==
    [streams |-> { << >>, <<"{", "FIVE", "}">> }, names |-> {"talk"},
     clients |-> BOOLEAN, cacheOk |-> BOOLEAN, fileOk |-> BOOLEAN]

ApiInit == MergeIdle /\ PipeInit(ApiEnv) /\ UtilIdle

ApiNext ==
    \/ RequestStep("s1", ApiEnv)
    \/ GetProgress("s1", ApiEnv)
    \/ GetResults("s1", ApiEnv)
    \/ ExportResults("s1", ApiEnv)
    \/ RedisExpire("s1")

SpecApi == ApiInit /\ [][ApiNext]_vars

\* split_text_into_chunks on entry (line 12): every text in the bounds,
\* every chunk_size and overlap with chunk_size > overlap >= 0
SplitInit ==
    /\ split_text \in Texts
    /\ chunk_size \in 1 .. MaxChunkSize
    /\ overlap \in 0 .. chunk_size - 1
    /\ split_words = << >>
    /\ chunks = << >>
    /\ split_start = 0
    /\ spc = "start"
    /\ NoiseIdle
    /\ response = NoResponse
    /\ MergeIdle
    /\ PipeInit([clients |-> {FALSE}])

SplitNext == SplitWords \/ SplitChunk

\* the function keeps running until it returns
SpecSplit == SplitInit /\ [][SplitNext]_vars /\ WF_vars(SplitNext)

\* _apply_noise_reduction after line 132: every clip length and sample rate
\* in the bounds
NoiseInit ==
    /\ audio_data \in { Clip(n) : n \in 0 .. MaxSamples }
    /\ sample_rate \in 1 .. MaxRate
    /\ y_noise = << >>
    /\ npc = "loaded"
    /\ response = NoResponse
    /\ SplitIdle
    /\ MergeIdle
    /\ PipeInit([clients |-> {FALSE}])

NoiseNext == ReduceNoise

SpecNoise == NoiseInit /\ [][NoiseNext]_vars

----------------------------------------------------------------------------
(* Properties of merge_transcription_diarization, checked under SpecMerge *)

Returned == mpc = "returned"

\* the word list handed in (empty when the result has none)
InputWords ==
    IF "words" \in DOMAIN whisper_result THEN whisper_result.words ELSE << >>

\* the speakers have been assigned (lines 109-114 have run)
Assigned == mpc \in {"group", "returned"} /\ words_with_speakers # << >>

\* turn t holds the doubled midpoint m2, both ends included
Holds(t, m2) == 2 * t.start <= m2 /\ m2 <= 2 * t.end

HoldingTurns(m2) ==
    { k \in 1 .. Len(diarization_result) : Holds(diarization_result[k], m2) }

PermuteSeq(s, p) == [k \in 1 .. Len(s) |-> s[p[k]]]

IsInfix(a, b) ==
    \E k \in 0 .. Len(b) - Len(a) : SubSeq(b, k + 1, k + Len(a)) = a

\* C1: every returned chunk has start <= end, and the chunk starts never
\* decrease along the returned list (the words come with start <= end and
\* non-decreasing start).
C1_ChunksOrdered ==
    Returned =>
        /\ \A k \in 1 .. Len(speaker_chunks) :
              speaker_chunks[k].start <= speaker_chunks[k].end
        /\ \A j, k \in 1 .. Len(speaker_chunks) :
              j < k => speaker_chunks[j].start <= speaker_chunks[k].start

\* two chunks were returned, the first one grown from a word with start < end
C1_Witness ==
    /\ Returned
    /\ Len(speaker_chunks) = 2
    /\ speaker_chunks[1].start < speaker_chunks[1].end
    /\ speaker_chunks[1].start < speaker_chunks[2].start

\* C2: the speaker given to a word is the same for every ordering of the
\* turn list, also when several turns hold the word's midpoint.
C2_OrderIndependent ==
    Assigned =>
        \A p \in Permutations(1 .. Len(diarization_result)) :
            \A k \in 1 .. Len(words_with_speakers) :
                words_with_speakers[k].speaker =
                    find_speaker(PermuteSeq(diarization_result, p),
                                 Mid2(InputWords[k]))

\* C7: with no words (an empty or missing word list) or no turns the function
\* returns the empty chunk list and does not raise.
C7_EmptyInputEmptyOutput ==
    (InputWords = << >> \/ diarization_result = << >>) =>
        /\ mpc \in {"start", "returned"}
        /\ Returned => speaker_chunks = << >>

\* the function has returned for words given with an empty turn list
C7_Witness ==
    /\ Returned
    /\ InputWords # << >>
    /\ diarization_result = << >>
    /\ speaker_chunks = << >>

\* C8: a word whose midpoint equals the start or the end of the only turn
\* that holds it gets that turn's speaker.
C8_InclusiveBoundary ==
    Assigned =>
        \A k \in 1 .. Len(words_with_speakers) :
            \A n \in 1 .. Len(diarization_result) :
                LET t == diarization_result[n]
                    m2 == Mid2(InputWords[k])
                IN  (/\ m2 = 2 * t.start \/ m2 = 2 * t.end
                     /\ HoldingTurns(m2) = {n})
                    => words_with_speakers[k].speaker = t.speaker

\* a word sits on the end of the only turn holding it and a second word on
\* the start of the only turn holding it
C8_Witness ==
    /\ Assigned
    /\ \E k \in 1 .. Len(words_with_speakers) :
         \E n \in 1 .. Len(diarization_result) :
            /\ Mid2(InputWords[k]) = 2 * diarization_result[n].end
            /\ diarization_result[n].start < diarization_result[n].end
            /\ HoldingTurns(Mid2(InputWords[k])) = {n}
            /\ words_with_speakers[k].speaker = diarization_result[n].speaker
    /\ \E k \in 1 .. Len(words_with_speakers) :
         \E n \in 1 .. Len(diarization_result) :
            /\ Mid2(InputWords[k]) = 2 * diarization_result[n].start
            /\ diarization_result[n].start < diarization_result[n].end
            /\ HoldingTurns(Mid2(InputWords[k])) = {n}
            /\ words_with_speakers[k].speaker = diarization_result[n].speaker

\* C9: a word whose midpoint no turn holds gets the speaker UNKNOWN, and the
\* returned list has an UNKNOWN chunk that starts no later than the word and
\* carries the word's text.
C9_UnknownSpeaker ==
    Assigned =>
        \A k \in 1 .. Len(words_with_speakers) :
            HoldingTurns(Mid2(InputWords[k])) = {} =>
                /\ words_with_speakers[k].speaker = "UNKNOWN"
                /\ Returned =>
                     \E c \in 1 .. Len(speaker_chunks) :
                        /\ speaker_chunks[c].speaker = "UNKNOWN"
                        /\ speaker_chunks[c].start <= InputWords[k].start
                        /\ IsInfix(Strip(InputWords[k].word),
                                   speaker_chunks[c].text)

\* returned: the first word has a speaker, the second is held by no turn and
\* makes up an UNKNOWN chunk of its own
C9_Witness ==
    /\ Returned
    /\ Len(words_with_speakers) = 2
    /\ HoldingTurns(Mid2(InputWords[1])) # {}
    /\ HoldingTurns(Mid2(InputWords[2])) = {}
    /\ Len(speaker_chunks) = 2
    /\ speaker_chunks[2].speaker = "UNKNOWN"
    /\ speaker_chunks[2].text = Strip(InputWords[2].word)

\* C10: in a step of the grouping loop on a word with the same speaker as
\* the word before it, the current chunk is closed and a new one opened if
\* and only if the word starts more than 0.3 s after the previous word's end;
\* otherwise (also at exactly 0.3 s) the word joins the current chunk.
C10_GapSplit ==
    [][ (/\ mpc = "group"
         /\ i <= Len(words_with_speakers)
         /\ i' = i + 1
         /\ words_with_speakers[i].speaker = words_with_speakers[i - 1].speaker)
        => LET gap == words_with_speakers[i].start
                        - words_with_speakers[i - 1].end
           IN  IF gap > 3
               THEN /\ speaker_chunks' = Append(speaker_chunks, current_chunk)
                    /\ current_chunk'.start = words_with_speakers[i].start
                    /\ current_chunk'.text = words_with_speakers[i].word
               ELSE /\ speaker_chunks' = speaker_chunks
                    /\ current_chunk'.start = current_chunk.start
                    /\ current_chunk'.text =
                         current_chunk.text \o words_with_speakers[i].word
      ]_vars

\* two words of one speaker exactly 0.3 s apart were returned as one chunk
C10_Witness ==
    /\ Returned
    /\ Len(words_with_speakers) = 2
    /\ words_with_speakers[1].speaker = words_with_speakers[2].speaker
    /\ words_with_speakers[2].start - words_with_speakers[1].end = 3
    /\ Len(speaker_chunks) = 1

\* C11: in a step of the grouping loop on a word whose assigned speaker
\* differs from the speaker of the word before it, the chunk that ends with
\* the previous word is closed and the word opens a new chunk, whatever the
\* gap between the two words (zero and negative gaps included).
C11_SpeakerChangeSplits ==
    [][ (/\ mpc = "group"
         /\ i <= Len(words_with_speakers)
         /\ i' = i + 1
         /\ words_with_speakers[i].speaker # words_with_speakers[i - 1].speaker)
        => /\ current_chunk.end = words_with_speakers[i - 1].end
           /\ current_chunk.speaker = words_with_speakers[i - 1].speaker
           /\ speaker_chunks' = Append(speaker_chunks, current_chunk)
           /\ current_chunk' = NewChunk(words_with_speakers[i])
      ]_vars

\* two words of different speakers, the second starting before the first
\* one ends, were returned as two chunks
C11_Witness ==
    /\ Returned
    /\ Len(words_with_speakers) = 2
    /\ words_with_speakers[1].speaker # words_with_speakers[2].speaker
    /\ words_with_speakers[2].start - words_with_speakers[1].end < 0
    /\ Len(speaker_chunks) = 2
    /\ speaker_chunks[1].speaker = words_with_speakers[1].speaker
    /\ speaker_chunks[2].speaker = words_with_speakers[2].speaker

\* word k opens a chunk: it is the first word, or its speaker differs from
\* the previous word's, or it starts more than 0.3 s after the previous end
OpensChunk(k) ==
    \/ k = 1
    \/ words_with_speakers[k].speaker # words_with_speakers[k - 1].speaker
    \/ words_with_speakers[k].start - words_with_speakers[k - 1].end > 3

ChunkStarts == { k \in 1 .. Len(words_with_speakers) : OpensChunk(k) }

\* the index of the first and of the last word of the c-th chunk
FirstWordOf(c) ==
    CHOOSE k \in ChunkStarts : Cardinality({ j \in ChunkStarts : j < k }) = c - 1

LastWordOf(c) ==
    IF c = Cardinality(ChunkStarts) THEN Len(words_with_speakers)
    ELSE FirstWordOf(c + 1) - 1

\* the texts of the input words a .. b, joined with nothing in between
RECURSIVE JoinWords(_, _)
JoinWords(a, b) ==
    IF a > b THEN << >> ELSE InputWords[a].word \o JoinWords(a + 1, b)

\* C12: the text of every returned chunk is the texts of exactly its words,
\* in input order, joined with no separator, with the whitespace at both ends
\* removed once after the join (blanks inside the text are kept).
C12_TextIsVerbatimJoin ==
    (Returned /\ words_with_speakers # << >>) =>
        /\ Len(speaker_chunks) = Cardinality(ChunkStarts)
        /\ \A c \in 1 .. Len(speaker_chunks) :
              speaker_chunks[c].text =
                  Strip(JoinWords(FirstWordOf(c), LastWordOf(c)))

\* one chunk was returned for the two words ' b' and 'a ': nothing was put
\* between them and the blank at each end was trimmed
C12_Witness ==
    /\ Returned
    /\ Len(words_with_speakers) = 2
    /\ Len(speaker_chunks) = 1
    /\ InputWords[1].word = <<" ", "b">>
    /\ InputWords[2].word = <<"a", " ">>
    /\ speaker_chunks[1].text = <<"b", "a">>

\* the c-th smallest member of the index set B
NthOf(B, c) == CHOOSE k \in B : Cardinality({ j \in B : j < k }) = c - 1

\* the words from..to make up the chunk: a run of one speaker, the chunk's,
\* with no gap above 0.3 s inside, whose first start and last end are the
\* chunk's
IsRunOf(chunk, from, to) ==
    /\ from <= to
    /\ \A k \in from .. to : words_with_speakers[k].speaker = chunk.speaker
    /\ \A k \in from + 1 .. to :
          words_with_speakers[k].start - words_with_speakers[k - 1].end <= 3
    /\ chunk.start = InputWords[from].start
    /\ chunk.end = InputWords[to].end

\* word k could not have joined the run that ends before it
BreaksRun(k) ==
    \/ words_with_speakers[k].speaker # words_with_speakers[k - 1].speaker
    \/ words_with_speakers[k].start - words_with_speakers[k - 1].end > 3

\* C21: the returned chunks cut the word list into maximal runs: there are
\* cut points, the first at word 1, one per chunk, such that chunk c is made
\* of the words from its cut point up to the next one (the last chunk up to
\* the last word), so every word lies in exactly one chunk and in input order;
\* the words of a chunk all have its speaker, neighbours inside a chunk are at
\* most 0.3 s apart, chunk.start is the first word's start and chunk.end the
\* last word's end; and no chunk could have taken the next chunk's first word.
C21_ChunksPartitionWords ==
    (Returned /\ words_with_speakers # << >>) =>
        LET n == Len(words_with_speakers)
            m == Len(speaker_chunks)
        IN  \E B \in SUBSET (1 .. n) :
               /\ 1 \in B
               /\ Cardinality(B) = m
               /\ \A c \in 1 .. m :
                     /\ IsRunOf(speaker_chunks[c], NthOf(B, c),
                                IF c = m THEN n ELSE NthOf(B, c + 1) - 1)
                     /\ c > 1 => BreaksRun(NthOf(B, c))

\* two words of one speaker, the second starting after the first one ends
\* and within 0.3 s of it, were returned as one chunk that spans both
C21_Witness ==
    /\ Returned
    /\ Len(words_with_speakers) = 2
    /\ words_with_speakers[1].end < words_with_speakers[2].start
    /\ Len(speaker_chunks) = 1
    /\ speaker_chunks[1].start = InputWords[1].start
    /\ speaker_chunks[1].end = InputWords[2].end
    /\ speaker_chunks[1].speaker = words_with_speakers[2].speaker

----------------------------------------------------------------------------
(* Properties of the noise profile, checked under SpecNoise *)

----------------------------------------------------------------------------
(* Properties of the cleaning pipelines, checked under SpecRun and
   SpecSessions *)

\* the position (1-based) of the last tok in text, 0 when there is none
LastPos(text, tok) ==
    IF \E k \in 1 .. Len(text) : text[k] = tok
    THEN CHOOSE k \in 1 .. Len(text) :
            text[k] = tok /\ \A j \in k + 1 .. Len(text) : text[j] # tok
    ELSE 0

\* the stream holds no JSON object between its last "{" and its last "}"
NoValidObject(text) ==
    LET open == LastPos(text, "{")
        close == LastPos(text, "}")
    IN  \/ open = 0
        \/ close = 0
        \/ close < open
        \/ ~ JsonLoads(SubSeq(text, open, close)).ok

\* the files extract_and_clean_audio may write for the session's video
CleaningPaths(s) ==
    LET video == sess[s].video_path
    IN  IF sess[s].origin = "enhanced"
        THEN {BasicPath(video), RawPath(video), DenoisedPath(video),
              CleanedPath(video), FinalOutputPath(video)}
        ELSE {ExtractedAudioPath(video), TmpF32Path(video), PrePath(video),
              NormPath(video), OutWavPath(video)}

\* extract_and_clean_audio has just returned or raised
CleaningEnded(s) ==
    \/ sess[s].origin = "enhanced" /\ sess[s].pc \in {"returned", "raised"}
    \/ InRequest(s) /\ sess[s].pc = "transcribe"
    \/ /\ InRequest(s)
       /\ sess[s].pc = "pvf_except"
       /\ sess[s].exc.where \in {"extract_audio", "master_clean_audio"}

\* a stage after the basic extraction has failed
CleaningFailed(s) ==
    \/ sess[s].enhanced_failed
    \/ sess[s].exc.where = "master_clean_audio"

\* C3: the parsing step of a diagnostic stream without a valid JSON object
\* raises nothing: the run goes on to produce its final output.
C3_ParseFailureDoesNotRaise ==
    [][ \A s \in Sessions :
           (/\ sess[s].pc \in {"mc_parse", "e_parse"}
            /\ NoValidObject(sess[s].text)
            /\ sess'[s].pc # sess[s].pc)
           => /\ sess'[s].exc = NoExc
              /\ sess'[s].pc \in {"mc_final", "e_fallback"}
      ]_vars

\* C4: once extract_and_clean_audio has returned or raised, no file it wrote
\* exists any more, except the file it returned.
C4_NoIntermediateLeft ==
    \A s \in Sessions :
        CleaningEnded(s) =>
            \A path \in written[s] \cap CleaningPaths(s) :
                Exists(path) => path = sess[s].audio_path

\* C5: two sessions never write the same temporary path, and a session
\* transcribes and diarizes only its own recording.
C5_SessionsIsolated ==
    /\ \A s1, s2 \in Sessions :
          s1 # s2 => written[s1] \cap written[s2] = {}
    /\ \A s \in Sessions :
          /\ sess[s].transcript \in {"", s}
          /\ sess[s].diarization \in {"", s}

\* C6: when a cleaning stage fails after the basic extraction succeeded, the
\* request is not aborted.
C6_CleaningFailureFallsBack ==
    \A s \in Sessions :
        (sess[s].basic_audio # NoPath /\ CleaningFailed(s))
        => sess[s].pc \notin {"pvf_except", "failed", "raised"}

\* the stream is some text without braces followed by one object whose body
\* is the token body, and nothing after it
EndsWithOneObject(text, body) ==
    /\ Len(text) >= 3
    /\ SubSeq(text, Len(text) - 2, Len(text)) = <<"{", body, "}">>
    /\ \A k \in 1 .. Len(text) - 3 : text[k] \notin {"{", "}"}

\* the five values written in the stream for a body token
ValuesInStream(body) == IF body = "FIVE" THEN FiveFields ELSE BadFields

\* the filter of the measurement pass the session ran last
MeasuredWith(s) ==
    LET k == CHOOSE k \in 1 .. Len(calls[s]) :
                 /\ calls[s][k].at \in {"mc_measure", "e_measure"}
                 /\ \A j \in k + 1 .. Len(calls[s]) :
                       calls[s][j].at \notin {"mc_measure", "e_measure"}
    IN  calls[s][k].af[1]

\* C13: when the diagnostic stream ends with exactly one JSON object that
\* holds the five fields, the parsing step goes on to the correction pass, and
\* the correction pass runs loudnorm with measured_I, measured_LRA,
\* measured_TP, measured_thresh and offset equal to the five values as written
\* in the stream, with the I, LRA and TP of the measurement pass and
\* linear=true.
C13_MeasuredValuesUsed ==
    [][ \A s \in Sessions : \A body \in {"FIVE", "BAD"} :
           (/\ EndsWithOneObject(sess[s].text, body)
            /\ sess'[s].pc # sess[s].pc)
           => /\ sess[s].pc = "mc_parse" => sess'[s].pc = "mc_apply"
              /\ sess[s].pc = "e_parse" => sess'[s].pc = "e_apply"
              /\ sess[s].pc \in {"mc_apply", "e_apply"} =>
                    LET call == calls'[s][Len(calls'[s])]
                        v == ValuesInStream(body)
                        m == MeasuredWith(s).args
                    IN  /\ call.at = sess[s].pc
                        /\ call.af[1] =
                              [name |-> "loudnorm",
                               args |-> [I |-> m.I, LRA |-> m.LRA, TP |-> m.TP,
                                         measured_I |-> v.input_i,
                                         measured_LRA |-> v.input_lra,
                                         measured_TP |-> v.input_tp,
                                         measured_thresh |-> v.input_thresh,
                                         offset |-> v.target_offset,
                                         linear |-> "true"]]
      ]_vars

\* master_clean_audio has written the loudness-corrected file from a stream
\* of some text followed by the object, with the values of the stream
C13_Witness ==
    \E s \in Sessions :
        /\ sess[s].pc = "mc_final"
        /\ Len(calls[s]) >= 2
        /\ calls[s][Len(calls[s])].at = "mc_apply"
        /\ calls[s][Len(calls[s])].af[1].args.measured_I = "-23.54"
        /\ calls[s][Len(calls[s])].af[1].args.offset = "0.30"
        /\ Exists(NormPath(sess[s].video_path))
        /\ sess[s].src = NormPath(sess[s].video_path)

\* the text between the last "{" and the last "}" parses as an object that
\* lacks one of the five fields or holds a value that is no number
InvalidMeasurement(text) ==
    LET open == LastPos(text, "{")
        close == LastPos(text, "}")
        parsed == JsonLoads(SubSeq(text, open, close))
    IN  /\ open # 0
        /\ open < close
        /\ parsed.ok
        /\ \/ ~ (RequiredKeys \subseteq DOMAIN parsed.obj)
           \/ \E k \in DOMAIN parsed.obj : ~ IsFloatText(parsed.obj[k])

\* C14: the parsing step of a stream whose object lacks a field or holds a
\* value that is no number raises nothing and does not go on to the
\* measured-value correction pass.
C14_InvalidMeasurementFallsBack ==
    [][ \A s \in Sessions :
           (/\ sess[s].pc \in {"mc_parse", "e_parse"}
            /\ InvalidMeasurement(sess[s].text)
            /\ sess'[s].pc # sess[s].pc)
           => /\ sess'[s].exc = NoExc
              /\ sess'[s].pc \notin {"mc_apply", "e_apply", "pvf_except", "raised"}
      ]_vars

\* C15: the noise-reduction step never raises: whether the reduction worked
\* or failed, the pipeline goes on to the filter chain with a file at the
\* output path, which is the reduced audio or an unchanged copy of the input.
C15_NoiseReductionNeverRaises ==
    [][ \A s \in Sessions :
           (sess[s].pc = "e_denoise" /\ sess'[s].pc # "e_denoise")
           => LET input_path == RawPath(sess[s].video_path)
                  output_path == DenoisedPath(sess[s].video_path)
              IN  /\ sess'[s].pc = "e_chain"
                  /\ ~ sess'[s].enhanced_failed
                  /\ output_path \in DOMAIN fs'
                  /\ input_path \in DOMAIN fs =>
                        \/ fs'[output_path] = fs[input_path]
                        \/ fs'[output_path].ops = fs[input_path].ops \o <<NoiseReduce>>
      ]_vars

\* the stages of process_video_file after the audio extraction
LaterStages == {"transcribe", "diarize_standardize", "diarize_infer", "summarize"}

\* C16: when extract_audio fails in a request, process_video_file runs none
\* of transcription, diarization and summarization, returns no audio, writes
\* no results.json for the session, and its last update_progress call
\* records progress -1 with status 'error' and a message that carries the
\* failure; every progress store that took the record holds it.
C16_ExtractionFailureIsFatal ==
    \A s \in Sessions :
        (InRequest(s) /\ sess[s].exc.where = "extract_audio") =>
            /\ sess[s].pc \in {"pvf_except", "failed"}
            /\ \A k \in 1 .. Len(calls[s]) : calls[s][k].at \notin LaterStages
            /\ sess[s].transcript = "" /\ sess[s].diarization = ""
            /\ sess[s].audio_path = NoPath
            /\ ~ Exists(ResultsPath(s))
            /\ sess[s].pc = "failed" =>
                  /\ reported[s].session_id = s
                  /\ reported[s].progress = -1
                  /\ reported[s].status = "error"
                  /\ reported[s].message =
                        <<"Error: ", "extract_audio", sess[s].exc.cause>>
                  /\ \A store \in {redis, progress_files} :
                        (s \in DOMAIN store /\ store[s].progress < 0)
                            => store[s] = reported[s]

\* a request whose extraction failed has ended with the error record in the
\* progress file
C16_Witness ==
    \E s \in Sessions :
        /\ InRequest(s)
        /\ sess[s].pc = "failed"
        /\ sess[s].exc.where = "extract_audio"
        /\ s \in DOMAIN progress_files
        /\ progress_files[s].progress = -1
        /\ progress_files[s].status = "error"

\* the files the loudness stage of session s may produce
LoudnessOutputs(s) ==
    {OutWavPath(sess[s].video_path), FinalOutputPath(sess[s].video_path)}
        \cap written[s]

\* the last two filters applied to the content are the resampling to 16 kHz
\* and then the limiter with limit 0.97
EndsResampledAndLimited(content) ==
    LET n == Len(content.ops)
    IN  /\ n >= 2
        /\ content.ops[n - 1].name = "aresample"
        /\ content.ops[n - 1].args.rate = "16000"
        /\ content.ops[n].name = "alimiter"
        /\ content.ops[n].args.limit = "0.97"

\* C17: every file produced by the loudness stage, on every path, has been
\* resampled to 16 kHz and then limited at 0.97.
C17_OutputResampledAndLimited ==
    \A s \in Sessions :
        \A path \in LoudnessOutputs(s) :
            Exists(path) => EndsResampledAndLimited(fs[path])

\* C18: the file extract_and_clean_audio returned (the master-clean output,
\* the enhanced output or the basic audio it falls back to) exists and is
\* mono, 16 kHz, 16-bit signed PCM.
C18_ReturnedAudioFormat ==
    \A s \in Sessions :
        (sess[s].origin \in {"file", "url", "enhanced"}
            /\ sess[s].audio_path # NoPath)
        => /\ Exists(sess[s].audio_path)
           /\ fs[sess[s].audio_path].ac = "1"
           /\ fs[sess[s].audio_path].ar = "16000"
           /\ fs[sess[s].audio_path].codec = "pcm_s16le"

\* EnhancedAudioProcessor.extract_and_clean_audio has returned the basic
\* audio after its pipeline failed
C18_Witness ==
    \E s \in Sessions :
        /\ sess[s].origin = "enhanced"
        /\ sess[s].pc = "returned"
        /\ sess[s].enhanced_failed
        /\ sess[s].audio_path = sess[s].basic_audio
        /\ sess[s].audio_path # NoPath

\* a loudnorm filter with measured values; one with the targets only
IsMeasuredLoudnorm(f) ==
    f.name = "loudnorm" /\ "measured_I" \in DOMAIN f.args

IsTargetOnlyLoudnorm(f) ==
    f.name = "loudnorm" /\ DOMAIN f.args = {"I", "LRA", "TP"}

\* C19: a final output of a two-pass run that was not corrected with measured
\* values (the measurement could not be parsed) has still been normalized by
\* a loudnorm filter that carries the targets I, LRA and TP only, applied
\* before the final resampling.
C19_FallbackStillNormalizes ==
    \A s \in Sessions :
        sess[s].two_pass =>
            \A path \in LoudnessOutputs(s) :
                (/\ Exists(path)
                 /\ \A k \in 1 .. Len(fs[path].ops) :
                       ~ IsMeasuredLoudnorm(fs[path].ops[k]))
                => \E k \in 1 .. Len(fs[path].ops) :
                      /\ IsTargetOnlyLoudnorm(fs[path].ops[k])
                      /\ \E j \in k + 1 .. Len(fs[path].ops) :
                            fs[path].ops[j].name = "aresample"

\* the names of a list of filters, in order
ChainNames(filters) == [k \in 1 .. Len(filters) |-> filters[k].name]

\* C22: the expression handed to ffmpeg for the cleaning chain reads as a
\* chain of separate filters in the order high-pass, (low-pass), de-click,
\* spectral denoiser, de-esser, (compressor), dynamic normalization: five
\* filters for AudioProcessor, and seven, with the low-pass and the
\* compressor, for EnhancedAudioProcessor.
C22_FilterGraphWellFormed ==
    \A s \in Sessions :
        \A k \in 1 .. Len(calls[s]) :
            /\ calls[s][k].at = "mc_chain" =>
                  ChainNames(calls[s][k].af) =
                     << "highpass", "adeclick", "afftdn", "deesser",
                        "dynaudnorm" >>
            /\ calls[s][k].at = "e_chain" =>
                  ChainNames(calls[s][k].af) =
                     << "highpass", "lowpass", "adeclick", "afftdn", "deesser",
                        "compand", "dynaudnorm" >>

\* the place of a tool invocation in the order Transcoder (1),
\* SignalCleaningChain (2), NoiseReducer (3), LoudnessNormalizer (4);
\* 0 for the invocations after the cleaning
StageRank(at) ==
    IF at \in {"extract", "mc_f32", "e_basic", "e_raw"} THEN 1
    ELSE IF at \in {"mc_chain", "e_chain"} THEN 2
    ELSE IF at = "e_denoise" THEN 3
    ELSE IF at \in {"mc_measure", "mc_apply", "mc_final", "e_measure",
                    "e_apply", "e_fallback", "e_single"} THEN 4
    ELSE 0

\* C20: within one run the invocations follow the order extraction, filter
\* chain, noise reduction, loudness normalization: noise reduction never
\* runs before the filter chain has run, and nothing of the cleaning runs
\* after the loudness normalization has started.
C20_StagesInOrder ==
    \A s \in Sessions :
        \A j, k \in 1 .. Len(calls[s]) :
            (j < k /\ StageRank(calls[s][j].at) > 0
                   /\ StageRank(calls[s][k].at) > 0)
            => /\ StageRank(calls[s][j].at) <= StageRank(calls[s][k].at)
               /\ calls[s][k].at = "e_denoise" =>
                     \E c \in 1 .. k - 1 : StageRank(calls[s][c].at) = 2

----------------------------------------------------------------------------
(* Properties of the endpoints, checked under SpecApi *)

\* a progress record of session s with status 'completed' is on record
CompletedRecorded(s) ==
    \/ s \in DOMAIN redis /\ redis[s].status = "completed"
    \/ s \in DOMAIN progress_files /\ progress_files[s].status = "completed"
    \/ reported[s].status = "completed"

\* the step is an answer of `endpoint` about session s
Answers(endpoint, s) ==
    /\ response'.turn # response.turn
    /\ response'.endpoint = endpoint
    /\ response'.session_id = s

\* C24: whenever a progress record with status 'completed' (progress 100) is
\* on record for a session, results.json of that session exists and holds
\* the full results of the run, and a get_results call then answers with
\* status 'completed' and those results.
C24_CompletedMeansSaved ==
    /\ [](\A s \in Sessions :
            CompletedRecorded(s) =>
                /\ Exists(ResultsPath(s))
                /\ fs[ResultsPath(s)] = ResultsOf(s, TRUE))
    /\ [][\A s \in Sessions :
            (CompletedRecorded(s) /\ Answers("results", s)) =>
                /\ response'.status = 200
                /\ response'.body.status = "completed"
                /\ response'.body.results = ResultsOf(s, TRUE)]_vars

\* the progress file says 'completed' with progress 100 and get_results has
\* answered 'completed'
C24_Witness ==
    \E s \in Sessions :
        /\ s \in DOMAIN progress_files
        /\ progress_files[s].status = "completed"
        /\ progress_files[s].progress = 100
        /\ response.endpoint = "results"
        /\ response.status = 200
        /\ response.body.status = "completed"

\* the background task of session s is between its first and its last line
TaskRunning(s) == InRequest(s) /\ sess[s].pc \notin {"idle", "done", "failed"}

\* C25: a get_results call made while process_video_file runs for the same
\* session answers 200 with either status 'processing' and no results or
\* status 'completed' and the full results; it never answers from a
\* results.json that exists but is only partly written.
C25_ResultsNeverPartial ==
    [][\A s \in Sessions :
          (TaskRunning(s) /\ Answers("results", s)) =>
              /\ response'.status = 200
              /\ \/ /\ response'.body.status = "processing"
                    /\ DOMAIN response'.body.results = {}
                 \/ /\ response'.body.status = "completed"
                    /\ response'.body.results = ResultsOf(s, TRUE)]_vars

\* what the most recent update_progress call of session s recorded, or the
\* default record when there was no call
MostRecentUpdate(s) ==
    IF reported[s] = NoProgress THEN DefaultProgress(s) ELSE reported[s]

\* the file backup holds the most recent update of session s (or nothing when
\* there was none)
FileBackupCurrent(s) ==
    IF reported[s] = NoProgress THEN s \notin DOMAIN progress_files
    ELSE s \in DOMAIN progress_files /\ progress_files[s] = reported[s]

\* C26: get_progress answers with the data of the most recent update_progress
\* call of the session, or with the default 'Initializing' record with
\* progress 0 when there was none; also when the cache is unavailable or did
\* not take some update while the file backup did (the file being readable).
C26_ProgressIsMostRecent ==
    [][\A s \in Sessions : \A getOk \in BOOLEAN :
          (FileBackupCurrent(s) /\ GetProgressWith(s, getOk, TRUE)) =>
              response'.body = MostRecentUpdate(s)]_vars

\* the export endpoint's answer is about a returned path that did not exist
ExportFileWasMissing ==
    /\ response.endpoint = "export"
    /\ "detail" \in DOMAIN response.body
    /\ response.body.detail[Len(response.body.detail)]
         \in {"Export file not found", "404: Export file not found"}

\* C27: when the export service returns a path that does not exist the
\* export endpoint answers with status 404 and the detail 'Export file not
\* found'; it answers 500 only for the other failures (no results to load,
\* an unsupported format).
C27_ExportMissingFileIs404 ==
    /\ ExportFileWasMissing =>
          /\ response.status = 404
          /\ response.body.detail = <<"Export file not found">>
    /\ (response.endpoint = "export" /\ response.status = 500) =>
          ~ ExportFileWasMissing

----------------------------------------------------------------------------
(* Properties of split_text_into_chunks, checked under SpecSplit *)

\* the words of the k-th returned chunk
ChunkWords(k) == PySplit(chunks[k])

\* the number of words of the text before the first word of the k-th chunk,
\* when each chunk starts `overlap` words before the end of the one before
RECURSIVE ChunkOffset(_)
ChunkOffset(k) ==
    IF k = 1 THEN 0
    ELSE ChunkOffset(k - 1) + Len(ChunkWords(k - 1)) - overlap

\* the positions (in the text's word list) of the words of the k-th chunk
ChunkRange(k) == ChunkOffset(k) + 1 .. ChunkOffset(k) + Len(ChunkWords(k))

\* C28: for chunk_size > overlap >= 0 split_text_into_chunks returns, and
\* what it returns covers the words of the text in order: no chunk for a text
\* without words (empty or blank); otherwise the first chunk starts at the
\* first word, every chunk is a run of 1..chunk_size consecutive words of the
\* text, consecutive chunks share exactly `overlap` words, and the last chunk
\* ends with the last word.
C28_SplitTerminatesAndCovers ==
    /\ <>(spc = "returned")
    /\ [](spc = "returned" =>
            LET ws == PySplit(split_text)
                m == Len(chunks)
            IN  IF ws = << >> THEN chunks = << >>
                ELSE /\ m >= 1
                     /\ \A k \in 1 .. m :
                           /\ Len(ChunkWords(k)) \in 1 .. chunk_size
                           /\ ChunkOffset(k) >= 0
                           /\ ChunkOffset(k) + Len(ChunkWords(k)) <= Len(ws)
                           /\ ChunkWords(k) =
                                SubSeq(ws, ChunkOffset(k) + 1,
                                       ChunkOffset(k) + Len(ChunkWords(k)))
                     /\ \A k \in 1 .. m - 1 :
                           Cardinality(ChunkRange(k) \cap ChunkRange(k + 1))
                              = overlap
                     /\ ChunkOffset(m) + Len(ChunkWords(m)) = Len(ws))

\* 'a b a' was split with chunk_size 2 and overlap 1 into 'a b' and 'b a'
C28_Witness ==
    /\ spc = "returned"
    /\ split_text = <<"a", " ", "b", " ", "a">>
    /\ chunk_size = 2
    /\ overlap = 1
    /\ chunks = << <<"a", " ", "b">>, <<"b", " ", "a">> >>

=============================================================================
